---- MODULE Spec2Model ----
(***************************************************************************)
(* ENGIPIT geotechnical calculators (src/app.py): the three stateless      *)
(* calculator classes and the Controller methods that compose them.        *)
(*                                                                         *)
(* Numbers.  The program computes with IEEE doubles.  Here a number is an  *)
(* integer count of 1/SCALE units (decimal fixed point), every product and *)
(* quotient is rounded to the nearest unit, as the float operation rounds  *)
(* to the nearest double, and magnitudes beyond MAXV are held at MAXV.     *)
(* math.tan and math.exp are tabulated at the arguments the model can      *)
(* produce, with the true value rounded to the unit.                       *)
(*                                                                         *)
(* A call is one step: the caller picks an operation and its arguments     *)
(* (pc = "idle"), the operation runs to its return value or to the         *)
(* exception it raises (pc = "done"), and the caller drops the outcome.    *)
(* This is Spec.                                                           *)
(*                                                                         *)
(* ConcurrentSpec runs the calculators from several callers at once: a     *)
(* call is then a frame of its own (operation, arguments, the values its   *)
(* nested calls returned) that advances statement by statement, the        *)
(* frames of the callers interleaving freely.                              *)
(*                                                                         *)
(* BoreholeSpec is one Borehole of src/project_models.py receiving         *)
(* add_layer calls; added is the history of the layers passed in.          *)
(*                                                                         *)
(* ProjectSpec is a set of GeotechnicalProject objects and the             *)
(* SoilInvestigation and FoundationDesign objects handed to them.  Objects *)
(* are held by reference: a project's list holds the names of objects, and *)
(* investigations and designs map a name to the object's fields.           *)
(*                                                                         *)
(* AverageSpec calls SoilInvestigation.get_average_properties on           *)
(* investigations made of a few boreholes.                                 *)
(***************************************************************************)
EXTENDS Integers, Sequences, FiniteSets, TLC

VARIABLES pc, op, args, ret, callers, layers, added, projects, investigations, designs

vars == <<pc, op, args, ret, callers, layers, added, projects, investigations, designs>>

-----------------------------------------------------------------------------
(* Fixed-point arithmetic                                                  *)

SCALE == 10 * 10 * 10

MAXV == 200000 * SCALE

\* The decimal i.m, m in thousandths: F(2, 500) is 2.5
F(i, m) == i * SCALE + m

Abs(x) == IF x < 0 THEN -x ELSE x

Sgn(x) == IF x > 0 THEN 1 ELSE IF x < 0 THEN -1 ELSE 0

Min(a, b) == IF a <= b THEN a ELSE b

Sat(x) == IF x > MAXV THEN MAXV ELSE IF x < -MAXV THEN -MAXV ELSE x

Add(a, b) == Sat(a + b)

Sub(a, b) == Sat(a - b)

MulAbs(a, b) ==
    LET ah == a \div SCALE
        al == a % SCALE
        bh == b \div SCALE
        bl == b % SCALE
    IN  IF ah > 0 /\ bh > (MAXV \div SCALE) \div ah
        THEN MAXV
        ELSE Min(MAXV, ah * bh * SCALE + ah * bl + al * bh
                       + (al * bl + SCALE \div 2) \div SCALE)

Mul(a, b) == Sgn(a) * Sgn(b) * MulAbs(Abs(a), Abs(b))

Sq(a) == Mul(a, a)

RECURSIVE FracDigits(_, _, _)
FracDigits(r, b, s) ==
    IF s = 1
    THEN (IF 2 * r >= b THEN 1 ELSE 0)
    ELSE LET t == r * 10
         IN  (t \div b) * (s \div 10) + FracDigits(t % b, b, s \div 10)

DivAbs(a, b) ==
    LET q == a \div b
        r == a % b
    IN  IF q > MAXV \div SCALE
        THEN MAXV
        ELSE Min(MAXV, q * SCALE + FracDigits(r, b, SCALE))

\* a / b for b # 0; the callers raise ZeroDivisionError for b = 0
Div(a, b) == Sgn(a) * Sgn(b) * DivAbs(Abs(a), Abs(b))

-----------------------------------------------------------------------------
(* Outcomes of a Python call: a returned value or a raised exception       *)

Ok(v) == [exc |-> "none", val |-> v]

Raise(e) == [exc |-> e, val |-> <<>>]

\* float('inf'): above every finite value of the model
INF == MAXV + 1

-----------------------------------------------------------------------------
(* The math module                                                         *)

\* math.pi
PI == F(3, 142)

\* math.radians(a)
MathRadians(a) == Div(Mul(a, PI), F(180, 0))

\* math.tan at the radian arguments the model produces; math.tan(math.radians(90))
\* is 1.633e16, held at MAXV; math.tan(math.radians(45)) is 0.9999999999999999,
\* one step below 1, and is one step below 1 here
TanTable(x) ==
    CASE x = -175 -> -176
      [] x = -131 -> -132
      [] x = -105 -> -105
      [] x = 0 -> 0
      [] x = 209 -> 213
      [] x = 262 -> 268
      [] x = 314 -> 325
      [] x = 349 -> 364
      [] x = 393 -> 414
      [] x = 419 -> 445
      [] x = 436 -> 466
      [] x = 524 -> 577
      [] x = 611 -> 700
      [] x = 698 -> 839
      [] x = 786 -> 999
      [] x = 873 -> 1192
      [] x = 943 -> 1376
      [] x = 960 -> 1428
      [] x = 1047 -> 1732
      [] x = 1135 -> 2145
      [] x = 1178 -> 2414
      [] x = 1571 -> MAXV

MathTan(x) == TanTable(x)

\* math.exp at the arguments the model produces
ExpTable(x) ==
    CASE x = -553 -> 575
      [] x = 0 -> 1000
      [] x = 1144 -> 3138
      [] x = 1813 -> 6134
      [] x = 2636 -> 13959

\* math.exp raises OverflowError ("math range error") when the result exceeds
\* the largest double, i.e. for arguments above 709.782
MathExp(x) ==
    IF x > F(709, 782) THEN Raise("OverflowError") ELSE Ok(ExpTable(x))

-----------------------------------------------------------------------------
(* A local of the code that is read more than once is passed on as the     *)
(* parameter of a local operator, so that it is computed once, as the      *)
(* assignment computes it once.                                            *)

-----------------------------------------------------------------------------
(* DeepFoundationCalculator                                                *)

\* calculate_pile_end_bearing with an Nq of its own, without the exponential
calculate_pile_end_bearing_OwnNq(pile_diameter, unit_weight, pile_length, friction_angle, cohesion) ==
    LET area == Mul(PI, Sq(Div(pile_diameter, F(2, 0))))
        sigma_v == Mul(unit_weight, pile_length)
        phi_rad == MathRadians(friction_angle)
        EndBearing(e) ==
            IF e.exc # "none"
            THEN e
            ELSE LET Nq == Sq(MathTan(MathRadians(
                                   Add(F(45, 0), Div(friction_angle, F(2, 0))))))
                     qb == Add(Mul(cohesion, F(9, 0)), Mul(sigma_v, Nq))
                     Qb == Mul(qb, area)
                 IN  Ok(Qb)
    IN  EndBearing(MathExp(Mul(PI, MathTan(phi_rad))))

calculate_pile_end_bearing(pile_diameter, unit_weight, pile_length, friction_angle, cohesion) ==
    LET area == Mul(PI, Sq(Div(pile_diameter, F(2, 0))))
        sigma_v == Mul(unit_weight, pile_length)
        phi_rad == MathRadians(friction_angle)
        EndBearing(e) ==
            IF e.exc # "none"
            THEN e
            ELSE LET Nq == Mul(e.val,
                               Sq(MathTan(MathRadians(
                                   Add(F(45, 0), Div(friction_angle, F(2, 0)))))))
                     qb == Add(Mul(cohesion, F(9, 0)), Mul(sigma_v, Nq))
                     Qb == Mul(qb, area)
                 IN  Ok(Qb)
    IN  EndBearing(MathExp(Mul(PI, MathTan(phi_rad))))

\* calculate_pile_skin_friction that takes pile_type in any letter case
calculate_pile_skin_friction_AnyCase(pile_diameter, pile_length, unit_weight, friction_angle, cohesion, pile_type) ==
    LET perimeter == Mul(PI, pile_diameter)
        sigma_v_avg == Div(Mul(unit_weight, pile_length), F(2, 0))
        K == IF pile_type \in {"driven", "Driven"} THEN F(0, 800) ELSE F(0, 700)
        delta == IF pile_type \in {"driven", "Driven"}
                 THEN Mul(F(0, 750), friction_angle)
                 ELSE Mul(F(0, 600), friction_angle)
        fs == Add(cohesion, Mul(Mul(K, sigma_v_avg), MathTan(MathRadians(delta))))
        Qs == Mul(Mul(fs, perimeter), pile_length)
    IN  Ok(Qs)

\* calculate_pile_skin_friction comparing pile_type with a capitalised "Driven"
calculate_pile_skin_friction_Capitalised(pile_diameter, pile_length, unit_weight, friction_angle, cohesion, pile_type) ==
    LET perimeter == Mul(PI, pile_diameter)
        sigma_v_avg == Div(Mul(unit_weight, pile_length), F(2, 0))
        K == IF pile_type = "Driven" THEN F(0, 800) ELSE F(0, 700)
        delta == IF pile_type = "Driven"
                 THEN Mul(F(0, 750), friction_angle)
                 ELSE Mul(F(0, 600), friction_angle)
        fs == Add(cohesion, Mul(Mul(K, sigma_v_avg), MathTan(MathRadians(delta))))
        Qs == Mul(Mul(fs, perimeter), pile_length)
    IN  Ok(Qs)

calculate_pile_skin_friction(pile_diameter, pile_length, unit_weight, friction_angle, cohesion, pile_type) ==
    LET perimeter == Mul(PI, pile_diameter)
        sigma_v_avg == Div(Mul(unit_weight, pile_length), F(2, 0))
        K == IF pile_type = "driven" THEN F(0, 800) ELSE F(0, 700)
        delta == IF pile_type = "driven"
                 THEN Mul(F(0, 750), friction_angle)
                 ELSE Mul(F(0, 600), friction_angle)
        fs == Add(cohesion, Mul(Mul(K, sigma_v_avg), MathTan(MathRadians(delta))))
        Qs == Mul(Mul(fs, perimeter), pile_length)
    IN  Ok(Qs)

\* factor_of_safety: float = 2.5
PILE_FOS_DEFAULT == F(2, 500)

\* calculate_pile_capacity with the skin friction left out of the total
calculate_pile_capacity_NoSkin(pile_diameter, pile_length, unit_weight, friction_angle, cohesion, pile_type, factor_of_safety) ==
    LET Capacity(Qb, Qs) ==
            IF Qb.exc # "none" THEN Qb
            ELSE IF Qs.exc # "none" THEN Qs
            ELSE LET Allowable(Qu) ==
                         IF factor_of_safety = 0
                         THEN Raise("ZeroDivisionError")
                         ELSE Ok(<<Qu, Div(Qu, factor_of_safety), Qb.val, Qs.val>>)
                 IN  Allowable(Qb.val)
    IN  Capacity(calculate_pile_end_bearing(pile_diameter, unit_weight, pile_length,
                                            friction_angle, cohesion),
                 calculate_pile_skin_friction(pile_diameter, pile_length, unit_weight,
                                              friction_angle, cohesion, pile_type))

calculate_pile_capacity(pile_diameter, pile_length, unit_weight, friction_angle, cohesion, pile_type, factor_of_safety) ==
    LET Capacity(Qb, Qs) ==
            IF Qb.exc # "none" THEN Qb
            ELSE IF Qs.exc # "none" THEN Qs
            ELSE LET Allowable(Qu) ==
                         IF factor_of_safety = 0
                         THEN Raise("ZeroDivisionError")
                         ELSE Ok(<<Qu, Div(Qu, factor_of_safety), Qb.val, Qs.val>>)
                 IN  Allowable(Add(Qb.val, Qs.val))
    IN  Capacity(calculate_pile_end_bearing(pile_diameter, unit_weight, pile_length,
                                            friction_angle, cohesion),
                 calculate_pile_skin_friction(pile_diameter, pile_length, unit_weight,
                                              friction_angle, cohesion, pile_type))

\* calculate_pile_group_efficiency reaching full efficiency from ratio 5 on
calculate_pile_group_efficiency_Full5(num_piles, spacing, diameter) ==
    IF diameter = 0
    THEN Raise("ZeroDivisionError")
    ELSE LET Efficiency(s_d_ratio) ==
                 IF s_d_ratio >= F(5, 0)
                 THEN F(1, 0)
                 ELSE IF s_d_ratio >= F(3, 0)
                 THEN Add(F(0, 700),
                          Div(Mul(F(0, 300), Sub(s_d_ratio, F(3, 0))), F(3, 0)))
                 ELSE Div(Mul(F(0, 700), s_d_ratio), F(3, 0))
         IN  Ok(Min(Efficiency(Div(spacing, diameter)), F(1, 0)))

\* calculate_pile_group_efficiency with the factor 0.7 missing below ratio 3
calculate_pile_group_efficiency_NoFactor(num_piles, spacing, diameter) ==
    IF diameter = 0
    THEN Raise("ZeroDivisionError")
    ELSE LET Efficiency(s_d_ratio) ==
                 IF s_d_ratio >= F(6, 0)
                 THEN F(1, 0)
                 ELSE IF s_d_ratio >= F(3, 0)
                 THEN Add(F(0, 700),
                          Div(Mul(F(0, 300), Sub(s_d_ratio, F(3, 0))), F(3, 0)))
                 ELSE Div(s_d_ratio, F(3, 0))
         IN  Ok(Min(Efficiency(Div(spacing, diameter)), F(1, 0)))

calculate_pile_group_efficiency(num_piles, spacing, diameter) ==
    IF diameter = 0
    THEN Raise("ZeroDivisionError")
    ELSE LET Efficiency(s_d_ratio) ==
                 IF s_d_ratio >= F(6, 0)
                 THEN F(1, 0)
                 ELSE IF s_d_ratio >= F(3, 0)
                 THEN Add(F(0, 700),
                          Div(Mul(F(0, 300), Sub(s_d_ratio, F(3, 0))), F(3, 0)))
                 ELSE Div(Mul(F(0, 700), s_d_ratio), F(3, 0))
         IN  Ok(Min(Efficiency(Div(spacing, diameter)), F(1, 0)))

-----------------------------------------------------------------------------
(* ShallowFoundationCalculator                                             *)

\* calculate_bearing_capacity_factors with 5.7 as the cohesive limit of Nc
calculate_bearing_capacity_factors_Nc57(friction_angle) ==
    LET phi_rad == MathRadians(friction_angle)
        Factors(e, tan_phi) ==
            IF e.exc # "none"
            THEN e
            ELSE LET WithNq(Nq) ==
                         LET Ngamma == Mul(Mul(F(2, 0), Add(Nq, F(1, 0))), tan_phi)
                         IN  IF friction_angle > 0
                             THEN IF tan_phi = 0
                                  THEN Raise("ZeroDivisionError")
                                  ELSE Ok(<<Div(Sub(Nq, F(1, 0)), tan_phi), Nq, Ngamma>>)
                             ELSE Ok(<<F(5, 700), Nq, Ngamma>>)
                 IN  WithNq(Mul(e.val,
                                Sq(MathTan(MathRadians(
                                    Add(F(45, 0), Div(friction_angle, F(2, 0))))))))
    IN  Factors(MathExp(Mul(PI, MathTan(phi_rad))), MathTan(phi_rad))

calculate_bearing_capacity_factors(friction_angle) ==
    LET phi_rad == MathRadians(friction_angle)
        Factors(e, tan_phi) ==
            IF e.exc # "none"
            THEN e
            ELSE LET WithNq(Nq) ==
                         LET Ngamma == Mul(Mul(F(2, 0), Add(Nq, F(1, 0))), tan_phi)
                         IN  IF friction_angle > 0
                             THEN IF tan_phi = 0
                                  THEN Raise("ZeroDivisionError")
                                  ELSE Ok(<<Div(Sub(Nq, F(1, 0)), tan_phi), Nq, Ngamma>>)
                             ELSE Ok(<<F(5, 140), Nq, Ngamma>>)
                 IN  WithNq(Mul(e.val,
                                Sq(MathTan(MathRadians(
                                    Add(F(45, 0), Div(friction_angle, F(2, 0))))))))
    IN  Factors(MathExp(Mul(PI, MathTan(phi_rad))), MathTan(phi_rad))

\* calculate_ultimate_bearing_capacity without the factor 0.5 of the width term
calculate_ultimate_bearing_capacity_NoHalf(width, length, depth, unit_weight, cohesion, friction_angle) ==
    LET Terzaghi(f) ==
            IF f.exc # "none"
            THEN f
            ELSE LET Nc == f.val[1]
                     Nq == f.val[2]
                     Ngamma == f.val[3]
                     qu == Add(Add(Mul(cohesion, Nc),
                                   Mul(Mul(unit_weight, depth), Nq)),
                               Mul(Mul(unit_weight, width), Ngamma))
                 IN  Ok(qu)
    IN  Terzaghi(calculate_bearing_capacity_factors(friction_angle))

calculate_ultimate_bearing_capacity(width, length, depth, unit_weight, cohesion, friction_angle) ==
    LET Terzaghi(f) ==
            IF f.exc # "none"
            THEN f
            ELSE LET Nc == f.val[1]
                     Nq == f.val[2]
                     Ngamma == f.val[3]
                     qu == Add(Add(Mul(cohesion, Nc),
                                   Mul(Mul(unit_weight, depth), Nq)),
                               Mul(Mul(Mul(F(0, 500), unit_weight), width), Ngamma))
                 IN  Ok(qu)
    IN  Terzaghi(calculate_bearing_capacity_factors(friction_angle))

\* factor_of_safety: float = 3.0
BEARING_FOS_DEFAULT == F(3, 0)

calculate_allowable_bearing_capacity(ultimate_capacity, factor_of_safety) ==
    IF factor_of_safety = 0
    THEN Raise("ZeroDivisionError")
    ELSE Ok(Div(ultimate_capacity, factor_of_safety))

calculate_applied_pressure(load, width, length) ==
    LET Pressure(area) ==
            IF area = 0
            THEN Raise("ZeroDivisionError")
            ELSE Ok(Div(load, area))
    IN  Pressure(Mul(width, length))

-----------------------------------------------------------------------------
(* RetainingWallCalculator                                                 *)

\* the active coefficient taken on the passive side, tan^2(45 + phi/2)
calculate_active_earth_pressure_coefficient_Passive(friction_angle) ==
    LET Ka == Sq(MathTan(MathRadians(Add(F(45, 0), Div(friction_angle, F(2, 0))))))
    IN  Ok(Ka)

calculate_active_earth_pressure_coefficient(friction_angle) ==
    LET Ka == Sq(MathTan(MathRadians(Sub(F(45, 0), Div(friction_angle, F(2, 0))))))
    IN  Ok(Ka)

calculate_passive_earth_pressure_coefficient(friction_angle) ==
    LET Kp == Sq(MathTan(MathRadians(Add(F(45, 0), Div(friction_angle, F(2, 0))))))
    IN  Ok(Kp)

\* calculate_total_active_force with the surcharge force acting at the top
calculate_total_active_force_SurchargeAtTop(wall_height, unit_weight, friction_angle, cohesion, surcharge) ==
    LET Force(Ka) ==
            LET pa_soil == Mul(Mul(Ka, unit_weight), wall_height)
                pa_surcharge == Mul(Ka, surcharge)
                Resultant(Fa_soil, Fa_surcharge) ==
                    LET moment_soil == Mul(Fa_soil, Div(wall_height, F(3, 0)))
                        moment_surcharge == Mul(Fa_surcharge, wall_height)
                        Located(Fa_total) ==
                            IF Fa_total = 0
                            THEN Raise("ZeroDivisionError")
                            ELSE Ok(<<Fa_total,
                                      Div(Add(moment_soil, moment_surcharge),
                                          Fa_total)>>)
                    IN  Located(Add(Fa_soil, Fa_surcharge))
            IN  Resultant(Mul(Mul(F(0, 500), pa_soil), wall_height),
                          Mul(pa_surcharge, wall_height))
    IN  Force(calculate_active_earth_pressure_coefficient(friction_angle).val)

\* calculate_total_active_force with the soil force acting at mid-height
calculate_total_active_force_ArmHalf(wall_height, unit_weight, friction_angle, cohesion, surcharge) ==
    LET Force(Ka) ==
            LET pa_soil == Mul(Mul(Ka, unit_weight), wall_height)
                pa_surcharge == Mul(Ka, surcharge)
                Resultant(Fa_soil, Fa_surcharge) ==
                    LET moment_soil == Mul(Fa_soil, Div(wall_height, F(2, 0)))
                        moment_surcharge ==
                            Mul(Fa_surcharge, Div(wall_height, F(2, 0)))
                        Located(Fa_total) ==
                            IF Fa_total = 0
                            THEN Raise("ZeroDivisionError")
                            ELSE Ok(<<Fa_total,
                                      Div(Add(moment_soil, moment_surcharge),
                                          Fa_total)>>)
                    IN  Located(Add(Fa_soil, Fa_surcharge))
            IN  Resultant(Mul(Mul(F(0, 500), pa_soil), wall_height),
                          Mul(pa_surcharge, wall_height))
    IN  Force(calculate_active_earth_pressure_coefficient(friction_angle).val)

\* calculate_total_active_force that leaves the surcharge out
calculate_total_active_force_NoSurcharge(wall_height, unit_weight, friction_angle, cohesion, surcharge) ==
    LET Force(Ka) ==
            LET pa_soil == Mul(Mul(Ka, unit_weight), wall_height)
                pa_surcharge == 0
                Resultant(Fa_soil, Fa_surcharge) ==
                    LET moment_soil == Mul(Fa_soil, Div(wall_height, F(3, 0)))
                        moment_surcharge ==
                            Mul(Fa_surcharge, Div(wall_height, F(2, 0)))
                        Located(Fa_total) ==
                            IF Fa_total = 0
                            THEN Raise("ZeroDivisionError")
                            ELSE Ok(<<Fa_total,
                                      Div(Add(moment_soil, moment_surcharge),
                                          Fa_total)>>)
                    IN  Located(Add(Fa_soil, Fa_surcharge))
            IN  Resultant(Mul(Mul(F(0, 500), pa_soil), wall_height),
                          Mul(pa_surcharge, wall_height))
    IN  Force(calculate_active_earth_pressure_coefficient(friction_angle).val)

\* calculate_total_active_force with the soil force reduced by the cohesion
calculate_total_active_force_Cohesive(wall_height, unit_weight, friction_angle, cohesion, surcharge) ==
    LET Force(Ka) ==
            LET pa_soil == Mul(Mul(Ka, unit_weight), wall_height)
                pa_surcharge == Mul(Ka, surcharge)
                Resultant(Fa_soil, Fa_surcharge) ==
                    LET moment_soil == Mul(Fa_soil, Div(wall_height, F(3, 0)))
                        moment_surcharge ==
                            Mul(Fa_surcharge, Div(wall_height, F(2, 0)))
                        Located(Fa_total) ==
                            IF Fa_total = 0
                            THEN Raise("ZeroDivisionError")
                            ELSE Ok(<<Fa_total,
                                      Div(Add(moment_soil, moment_surcharge),
                                          Fa_total)>>)
                    IN  Located(Add(Fa_soil, Fa_surcharge))
            IN  Resultant(Sub(Mul(Mul(F(0, 500), pa_soil), wall_height),
                              Mul(Mul(F(2, 0), cohesion), wall_height)),
                          Mul(pa_surcharge, wall_height))
    IN  Force(calculate_active_earth_pressure_coefficient(friction_angle).val)

calculate_total_active_force(wall_height, unit_weight, friction_angle, cohesion, surcharge) ==
    LET Force(Ka) ==
            LET pa_soil == Mul(Mul(Ka, unit_weight), wall_height)
                pa_surcharge == Mul(Ka, surcharge)
                Resultant(Fa_soil, Fa_surcharge) ==
                    LET moment_soil == Mul(Fa_soil, Div(wall_height, F(3, 0)))
                        moment_surcharge ==
                            Mul(Fa_surcharge, Div(wall_height, F(2, 0)))
                        Located(Fa_total) ==
                            IF Fa_total = 0
                            THEN Raise("ZeroDivisionError")
                            ELSE Ok(<<Fa_total,
                                      Div(Add(moment_soil, moment_surcharge),
                                          Fa_total)>>)
                    IN  Located(Add(Fa_soil, Fa_surcharge))
            IN  Resultant(Mul(Mul(F(0, 500), pa_soil), wall_height),
                          Mul(pa_surcharge, wall_height))
    IN  Force(calculate_active_earth_pressure_coefficient(friction_angle).val)

-----
(* Controller: the four result paths of calculate_results.  A path returns *)
(* the values it computes and, under "shown", the DataItems it displays.   *)

RECURSIVE Pow10(_)
Pow10(n) == IF n = 0 THEN 1 ELSE 10 * Pow10(n - 1)

\* round(x, ndigits): to the nearest multiple of 10^-ndigits, ties to even;
\* round(float('inf'), ndigits) is inf
Round(x, ndigits) ==
    LET Nearest(u, q, r) ==
            IF 2 * r < u THEN q * u
            ELSE IF 2 * r > u THEN (q + 1) * u
            ELSE IF q % 2 = 0 THEN q * u
            ELSE (q + 1) * u
        ToUnit(u) == Nearest(u, x \div u, x % u)
    IN  IF x = INF THEN INF ELSE ToUnit(SCALE \div Pow10(ndigits))

\* a verdict that asks for a safety factor of 2
Status_AtLeast2(safety_factor) == IF safety_factor >= F(2, 0) THEN "SAFE" ELSE "UNSAFE"

Status(safety_factor) == IF safety_factor >= F(1, 0) THEN "SAFE" ELSE "UNSAFE"

Controller_calculate_shallow_foundation(width, length, depth, load, unit_weight, cohesion, friction_angle) ==
    LET Results(qu, applied_pressure, f) ==
            IF qu.exc # "none" THEN qu
            ELSE IF applied_pressure.exc # "none" THEN applied_pressure
            ELSE IF f.exc # "none" THEN f
            ELSE LET Groups(qa, safety_factor) ==
                         Ok([qu |-> qu.val, qa |-> qa,
                             applied_pressure |-> applied_pressure.val,
                             Nc |-> f.val[1], Nq |-> f.val[2], Ngamma |-> f.val[3],
                             safety_factor |-> safety_factor,
                             shown |->
                                 [qu |-> Round(qu.val, 2), qa |-> Round(qa, 2),
                                  applied_pressure |->
                                      Round(applied_pressure.val, 2),
                                  safety_factor |-> Round(safety_factor, 2),
                                  status |-> Status(safety_factor)]])
                     SafetyFactor(qa) ==
                         Groups(qa, IF applied_pressure.val > 0
                                    THEN Div(qa, applied_pressure.val)
                                    ELSE INF)
                 IN  SafetyFactor(calculate_allowable_bearing_capacity(
                                      qu.val, BEARING_FOS_DEFAULT).val)
    IN  Results(calculate_ultimate_bearing_capacity(width, length, depth,
                                                    unit_weight, cohesion,
                                                    friction_angle),
                calculate_applied_pressure(load, width, length),
                calculate_bearing_capacity_factors(friction_angle))

\* _calculate_single_pile dividing by the load without testing it
Controller_calculate_single_pile_NoGuard(diameter, length, pile_type, load, unit_weight, cohesion, friction_angle) ==
    LET Results(cap) ==
            IF cap.exc # "none" THEN cap
            ELSE LET Groups(Qu, Qa, Qb, Qs, safety_factor) ==
                         IF Qa = 0 \/ load = 0
                         THEN Raise("ZeroDivisionError")
                         ELSE Ok([Qu |-> Qu, Qa |-> Qa, Qb |-> Qb, Qs |-> Qs,
                                  safety_factor |-> safety_factor,
                                  shown |->
                                      [Qb |-> Round(Qb, 2), Qs |-> Round(Qs, 2),
                                       Qu |-> Round(Qu, 2), Qa |-> Round(Qa, 2),
                                       safety_factor |-> Round(safety_factor, 2),
                                       utilization |->
                                           Round(Mul(Div(load, Qa), F(100, 0)), 1),
                                       status |-> Status(safety_factor)]])
                 IN  Groups(cap.val[1], cap.val[2], cap.val[3], cap.val[4],
                            Div(cap.val[2], load))
    IN  Results(calculate_pile_capacity(diameter, length, unit_weight,
                                        friction_angle, cohesion, pile_type,
                                        PILE_FOS_DEFAULT))

Controller_calculate_single_pile(diameter, length, pile_type, load, unit_weight, cohesion, friction_angle) ==
    LET Results(cap) ==
            IF cap.exc # "none" THEN cap
            ELSE LET Groups(Qu, Qa, Qb, Qs, safety_factor) ==
                         IF Qa = 0
                         THEN Raise("ZeroDivisionError")
                         ELSE Ok([Qu |-> Qu, Qa |-> Qa, Qb |-> Qb, Qs |-> Qs,
                                  safety_factor |-> safety_factor,
                                  shown |->
                                      [Qb |-> Round(Qb, 2), Qs |-> Round(Qs, 2),
                                       Qu |-> Round(Qu, 2), Qa |-> Round(Qa, 2),
                                       safety_factor |-> Round(safety_factor, 2),
                                       utilization |->
                                           Round(Mul(Div(load, Qa), F(100, 0)), 1),
                                       status |-> Status(safety_factor)]])
                 IN  Groups(cap.val[1], cap.val[2], cap.val[3], cap.val[4],
                            IF load > 0 THEN Div(cap.val[2], load) ELSE INF)
    IN  Results(calculate_pile_capacity(diameter, length, unit_weight,
                                        friction_angle, cohesion, pile_type,
                                        PILE_FOS_DEFAULT))

\* _calculate_pile_group dividing by the bearing-capacity factor of safety 3.0
Controller_calculate_pile_group_Fos3(diameter, length, num_piles, spacing, total_load, unit_weight, cohesion, friction_angle) ==
    LET Results(cap, eff) ==
            IF cap.exc # "none" THEN cap
            ELSE IF eff.exc # "none" THEN eff
            ELSE IF num_piles = 0 THEN Raise("ZeroDivisionError")
            ELSE LET Groups(Qu_single, Qa_single, efficiency, Qu_group, Qa_group,
                            load_per_pile, safety_factor) ==
                         IF Qa_single = 0
                         THEN Raise("ZeroDivisionError")
                         ELSE Ok([Qu_single |-> Qu_single, Qa_single |-> Qa_single,
                                  efficiency |-> efficiency,
                                  Qu_group |-> Qu_group, Qa_group |-> Qa_group,
                                  load_per_pile |-> load_per_pile,
                                  safety_factor |-> safety_factor,
                                  shown |->
                                      [Qu_single |-> Round(Qu_single, 2),
                                       Qa_single |-> Round(Qa_single, 2),
                                       efficiency |-> Round(efficiency, 3),
                                       Qu_group |-> Round(Qu_group, 2),
                                       Qa_group |-> Round(Qa_group, 2),
                                       load_per_pile |-> Round(load_per_pile, 2),
                                       safety_factor |-> Round(safety_factor, 2),
                                       utilization |->
                                           Round(Mul(Div(load_per_pile, Qa_single),
                                                     F(100, 0)), 1),
                                       status |-> Status(safety_factor)]])
                     Group(Qu_group) ==
                         LET Safety(Qa_group) ==
                                 Groups(cap.val[1], cap.val[2], eff.val,
                                        Qu_group, Qa_group,
                                        Div(total_load, F(num_piles, 0)),
                                        IF total_load > 0
                                        THEN Div(Qa_group, total_load)
                                        ELSE INF)
                         IN  Safety(Div(Qu_group, BEARING_FOS_DEFAULT))
                 IN  Group(Mul(Mul(cap.val[1], F(num_piles, 0)), eff.val))
    IN  Results(calculate_pile_capacity(diameter, length, unit_weight,
                                        friction_angle, cohesion, "bored",
                                        PILE_FOS_DEFAULT),
                calculate_pile_group_efficiency(num_piles, spacing, diameter))

\* _calculate_pile_group reporting the utilization of one pile under the
\* total load
Controller_calculate_pile_group_TotalUtilization(diameter, length, num_piles, spacing, total_load, unit_weight, cohesion, friction_angle) ==
    LET Results(cap, eff) ==
            IF cap.exc # "none" THEN cap
            ELSE IF eff.exc # "none" THEN eff
            ELSE IF num_piles = 0 THEN Raise("ZeroDivisionError")
            ELSE LET Groups(Qu_single, Qa_single, efficiency, Qu_group, Qa_group,
                            load_per_pile, safety_factor) ==
                         IF Qa_single = 0
                         THEN Raise("ZeroDivisionError")
                         ELSE Ok([Qu_single |-> Qu_single, Qa_single |-> Qa_single,
                                  efficiency |-> efficiency,
                                  Qu_group |-> Qu_group, Qa_group |-> Qa_group,
                                  load_per_pile |-> load_per_pile,
                                  safety_factor |-> safety_factor,
                                  shown |->
                                      [Qu_single |-> Round(Qu_single, 2),
                                       Qa_single |-> Round(Qa_single, 2),
                                       efficiency |-> Round(efficiency, 3),
                                       Qu_group |-> Round(Qu_group, 2),
                                       Qa_group |-> Round(Qa_group, 2),
                                       load_per_pile |-> Round(load_per_pile, 2),
                                       safety_factor |-> Round(safety_factor, 2),
                                       utilization |->
                                           Round(Mul(Div(total_load, Qa_single),
                                                     F(100, 0)), 1),
                                       status |-> Status(safety_factor)]])
                     Group(Qu_group) ==
                         LET Safety(Qa_group) ==
                                 Groups(cap.val[1], cap.val[2], eff.val,
                                        Qu_group, Qa_group,
                                        Div(total_load, F(num_piles, 0)),
                                        IF total_load > 0
                                        THEN Div(Qa_group, total_load)
                                        ELSE INF)
                         IN  Safety(Div(Qu_group, F(2, 500)))
                 IN  Group(Mul(Mul(cap.val[1], F(num_piles, 0)), eff.val))
    IN  Results(calculate_pile_capacity(diameter, length, unit_weight,
                                        friction_angle, cohesion, "bored",
                                        PILE_FOS_DEFAULT),
                calculate_pile_group_efficiency(num_piles, spacing, diameter))

\* _calculate_pile_group that does not apply the efficiency
Controller_calculate_pile_group_NoEfficiency(diameter, length, num_piles, spacing, total_load, unit_weight, cohesion, friction_angle) ==
    LET Results(cap, eff) ==
            IF cap.exc # "none" THEN cap
            ELSE IF eff.exc # "none" THEN eff
            ELSE IF num_piles = 0 THEN Raise("ZeroDivisionError")
            ELSE LET Groups(Qu_single, Qa_single, efficiency, Qu_group, Qa_group,
                            load_per_pile, safety_factor) ==
                         IF Qa_single = 0
                         THEN Raise("ZeroDivisionError")
                         ELSE Ok([Qu_single |-> Qu_single, Qa_single |-> Qa_single,
                                  efficiency |-> efficiency,
                                  Qu_group |-> Qu_group, Qa_group |-> Qa_group,
                                  load_per_pile |-> load_per_pile,
                                  safety_factor |-> safety_factor,
                                  shown |->
                                      [Qu_single |-> Round(Qu_single, 2),
                                       Qa_single |-> Round(Qa_single, 2),
                                       efficiency |-> Round(efficiency, 3),
                                       Qu_group |-> Round(Qu_group, 2),
                                       Qa_group |-> Round(Qa_group, 2),
                                       load_per_pile |-> Round(load_per_pile, 2),
                                       safety_factor |-> Round(safety_factor, 2),
                                       utilization |->
                                           Round(Mul(Div(load_per_pile, Qa_single),
                                                     F(100, 0)), 1),
                                       status |-> Status(safety_factor)]])
                     Group(Qu_group) ==
                         LET Safety(Qa_group) ==
                                 Groups(cap.val[1], cap.val[2], eff.val,
                                        Qu_group, Qa_group,
                                        Div(total_load, F(num_piles, 0)),
                                        IF total_load > 0
                                        THEN Div(Qa_group, total_load)
                                        ELSE INF)
                         IN  Safety(Div(Qu_group, F(2, 500)))
                 IN  Group(Mul(cap.val[1], F(num_piles, 0)))
    IN  Results(calculate_pile_capacity(diameter, length, unit_weight,
                                        friction_angle, cohesion, "bored",
                                        PILE_FOS_DEFAULT),
                calculate_pile_group_efficiency(num_piles, spacing, diameter))

Controller_calculate_pile_group(diameter, length, num_piles, spacing, total_load, unit_weight, cohesion, friction_angle) ==
    LET Results(cap, eff) ==
            IF cap.exc # "none" THEN cap
            ELSE IF eff.exc # "none" THEN eff
            ELSE IF num_piles = 0 THEN Raise("ZeroDivisionError")
            ELSE LET Groups(Qu_single, Qa_single, efficiency, Qu_group, Qa_group,
                            load_per_pile, safety_factor) ==
                         IF Qa_single = 0
                         THEN Raise("ZeroDivisionError")
                         ELSE Ok([Qu_single |-> Qu_single, Qa_single |-> Qa_single,
                                  efficiency |-> efficiency,
                                  Qu_group |-> Qu_group, Qa_group |-> Qa_group,
                                  load_per_pile |-> load_per_pile,
                                  safety_factor |-> safety_factor,
                                  shown |->
                                      [Qu_single |-> Round(Qu_single, 2),
                                       Qa_single |-> Round(Qa_single, 2),
                                       efficiency |-> Round(efficiency, 3),
                                       Qu_group |-> Round(Qu_group, 2),
                                       Qa_group |-> Round(Qa_group, 2),
                                       load_per_pile |-> Round(load_per_pile, 2),
                                       safety_factor |-> Round(safety_factor, 2),
                                       utilization |->
                                           Round(Mul(Div(load_per_pile, Qa_single),
                                                     F(100, 0)), 1),
                                       status |-> Status(safety_factor)]])
                     Group(Qu_group) ==
                         LET Safety(Qa_group) ==
                                 Groups(cap.val[1], cap.val[2], eff.val,
                                        Qu_group, Qa_group,
                                        Div(total_load, F(num_piles, 0)),
                                        IF total_load > 0
                                        THEN Div(Qa_group, total_load)
                                        ELSE INF)
                         IN  Safety(Div(Qu_group, F(2, 500)))
                 IN  Group(Mul(Mul(cap.val[1], F(num_piles, 0)), eff.val))
    IN  Results(calculate_pile_capacity(diameter, length, unit_weight,
                                        friction_angle, cohesion, "bored",
                                        PILE_FOS_DEFAULT),
                calculate_pile_group_efficiency(num_piles, spacing, diameter))

Controller_calculate_retaining_wall(height, thickness, surcharge, unit_weight, cohesion, friction_angle) ==
    LET Results(Ka, Kp, Fa) ==
            IF Fa.exc # "none" THEN Fa
            ELSE Ok([Ka |-> Ka, Kp |-> Kp,
                     Fa_total |-> Fa.val[1], Fa_location |-> Fa.val[2],
                     shown |-> [Ka |-> Round(Ka, 3), Kp |-> Round(Kp, 3),
                                Fa_total |-> Round(Fa.val[1], 2),
                                Fa_location |-> Round(Fa.val[2], 2),
                                pressure_at_base |->
                                    Round(Mul(Mul(Ka, unit_weight), height), 2)]])
    IN  Results(calculate_active_earth_pressure_coefficient(friction_angle).val,
                calculate_passive_earth_pressure_coefficient(friction_angle).val,
                calculate_total_active_force(height, unit_weight, friction_angle,
                                             cohesion, surcharge))

-----
(* Arguments the callers pass.  The calculators take any number, so the    *)
(* sets hold negative and zero values beside the valid ones.               *)

MaxDiameter == 2

MaxLength == 3

MaxSpacing == 7

MaxPiles == 4

MaxLoad == 2

\* pile diameters, in steps of 0.5 m
Diameters == {k * F(0, 500) : k \in -1..MaxDiameter}

\* pile lengths, in steps of 5 m
PileLengths == {k * F(5, 0) : k \in -1..MaxLength}

\* pile spacings, in steps of 0.5 m
Spacings == {k * F(0, 500) : k \in -1..MaxSpacing}

PileCounts == 1..MaxPiles

\* loads, in steps of 1000 kN
Loads == {k * F(1000, 0) : k \in -1..MaxLoad}

UnitWeights == {-F(18, 0), 0, F(18, 0)}

Cohesions == {-F(10, 0), 0, F(10, 0)}

FrictionAngles == {-F(10, 0), 0, F(20, 0), F(30, 0), F(40, 0), F(90, 0)}

PileTypes == {"driven", "bored", "Driven"}

SafetyFactors == {0, F(2, 500), F(3, 0)}

MaxFooting == 2

MaxHeight == 2

\* footing width, length and depth, in steps of 1 m
FootingDims == {k * F(1, 0) : k \in -1..MaxFooting}

\* wall heights, in steps of 2.5 m
WallHeights == {k * F(2, 500) : k \in -1..MaxHeight}

Surcharges == {-F(10, 0), 0, F(10, 0)}

\* the wall calculator is also called for a light fill and a trace surcharge
WallUnitWeights == UnitWeights \cup {F(1, 0)}

WallSurcharges == Surcharges \cup {F(0, 1)}

\* wall thicknesses, in steps of 0.2 m
WallThicknesses == {F(0, 200), F(0, 400)}

\* A NumberField(min=lo, max=hi) of the Parametrization admits lo <= x <= hi
Field(S, lo, hi) == {x \in S : lo <= x /\ x <= hi}

FieldUnitWeight == Field(UnitWeights, F(10, 0), F(25, 0))

FieldCohesion == Field(Cohesions, 0, F(100, 0))

FieldFrictionAngle == Field(FrictionAngles, 0, F(45, 0))

FieldFoundationWidth == Field(FootingDims, F(0, 500), F(10, 0))

FieldFoundationLength == Field(FootingDims, F(0, 500), F(20, 0))

FieldFoundationDepth == Field(FootingDims, F(0, 500), F(5, 0))

FieldAppliedLoad == Field(Loads, 0, F(10000, 0))

FieldPileDiameter == Field(Diameters, F(0, 300), F(2, 0))

FieldPileLength == Field(PileLengths, F(5, 0), F(50, 0))

\* OptionField(options=["driven", "bored"])
FieldPileType == {"driven", "bored"}

FieldAppliedLoadPile == Field(Loads, 0, F(5000, 0))

FieldNumPiles == Field(PileCounts, 2, 20)

FieldPileSpacing == Field(Spacings, F(1, 500), F(5, 0))

FieldTotalLoad == Field(Loads, 0, F(50000, 0))

FieldWallHeight == Field(WallHeights, F(2, 0), F(15, 0))

FieldWallThickness == Field(WallThicknesses, F(0, 200), F(1, 0))

FieldSurcharge == Field(Surcharges, 0, F(50, 0))

-----------------------------------------------------------------------------
(* The state machine                                                       *)

NoArgs == <<>>

NoRet == Ok(<<>>)

NumCallers == 2

Callers == 1..NumCallers

\* Optional[...]: None, or the one value
None == <<>>

Some(x) == <<x>>

\* the GeotechnicalProject objects, by id
ProjectIds == {"P1", "P2"}

\* the FoundationDesign objects, by name
DesignIds == {"FD-1"}

\* the project_id an object is constructed with
ForeignProjectId == "P0"

\* a caller that is in no call
IdleCaller ==
    [pc |-> "idle", op |-> "none", args |-> NoArgs, locals |-> <<>>, ret |-> NoRet]

Init ==
    /\ pc = "idle"
    /\ op = "none"
    /\ args = NoArgs
    /\ ret = NoRet
    /\ callers = [i \in Callers |-> IdleCaller]
    /\ layers = <<>>
    /\ added = <<>>
    /\ projects = [p \in ProjectIds |->
                       [soil_investigations |-> <<>>, foundation_designs |-> <<>>]]
    /\ investigations = <<>>
    /\ designs = [d \in DesignIds |-> [project_id |-> ForeignProjectId]]

Invoke(name, a, r) ==
    /\ pc' = "done"
    /\ op' = name
    /\ args' = a
    /\ ret' = r
    /\ UNCHANGED <<callers, layers, added, projects, investigations, designs>>

CallPileEndBearing ==
    /\ pc = "idle"
    /\ \E d \in Diameters, g \in UnitWeights, l \in PileLengths,
          phi \in FrictionAngles, c \in Cohesions :
           Invoke("calculate_pile_end_bearing",
                  [pile_diameter |-> d, unit_weight |-> g, pile_length |-> l,
                   friction_angle |-> phi, cohesion |-> c],
                  calculate_pile_end_bearing(d, g, l, phi, c))

CallPileSkinFriction ==
    /\ pc = "idle"
    /\ \E d \in Diameters, l \in PileLengths, g \in UnitWeights,
          phi \in FrictionAngles, c \in Cohesions, t \in PileTypes :
           Invoke("calculate_pile_skin_friction",
                  [pile_diameter |-> d, pile_length |-> l, unit_weight |-> g,
                   friction_angle |-> phi, cohesion |-> c, pile_type |-> t],
                  calculate_pile_skin_friction(d, l, g, phi, c, t))

CallPileCapacity ==
    /\ pc = "idle"
    /\ \E d \in Diameters, l \in PileLengths, g \in UnitWeights,
          phi \in FrictionAngles, c \in Cohesions, t \in PileTypes,
          fos \in SafetyFactors :
           Invoke("calculate_pile_capacity",
                  [pile_diameter |-> d, pile_length |-> l, unit_weight |-> g,
                   friction_angle |-> phi, cohesion |-> c, pile_type |-> t,
                   factor_of_safety |-> fos, defaulted |-> FALSE],
                  calculate_pile_capacity(d, l, g, phi, c, t, fos))

\* calculate_pile_capacity called without factor_of_safety
CallPileCapacityDefault ==
    /\ pc = "idle"
    /\ \E d \in Diameters, l \in PileLengths, g \in UnitWeights,
          phi \in FrictionAngles, c \in Cohesions, t \in PileTypes :
           Invoke("calculate_pile_capacity",
                  [pile_diameter |-> d, pile_length |-> l, unit_weight |-> g,
                   friction_angle |-> phi, cohesion |-> c, pile_type |-> t,
                   factor_of_safety |-> PILE_FOS_DEFAULT, defaulted |-> TRUE],
                  calculate_pile_capacity(d, l, g, phi, c, t, PILE_FOS_DEFAULT))

CallPileGroupEfficiency ==
    /\ pc = "idle"
    /\ \E n \in PileCounts, s \in Spacings, d \in Diameters :
           Invoke("calculate_pile_group_efficiency",
                  [num_piles |-> n, spacing |-> s, diameter |-> d],
                  calculate_pile_group_efficiency(n, s, d))

CallBearingCapacityFactors ==
    /\ pc = "idle"
    /\ \E phi \in FrictionAngles :
           Invoke("calculate_bearing_capacity_factors",
                  [friction_angle |-> phi],
                  calculate_bearing_capacity_factors(phi))

CallUltimateBearingCapacity ==
    /\ pc = "idle"
    /\ \E w \in FootingDims, l \in FootingDims, df \in FootingDims,
          g \in UnitWeights, c \in Cohesions, phi \in FrictionAngles :
           Invoke("calculate_ultimate_bearing_capacity",
                  [width |-> w, length |-> l, depth |-> df, unit_weight |-> g,
                   cohesion |-> c, friction_angle |-> phi],
                  calculate_ultimate_bearing_capacity(w, l, df, g, c, phi))

\* the ultimate capacities passed on are those the calculator can return
CallAllowableBearingCapacity ==
    /\ pc = "idle"
    /\ \E w \in FootingDims, df \in FootingDims, c \in Cohesions,
          phi \in FrictionAngles \ {F(90, 0)}, fos \in SafetyFactors :
           LET Pass(qu) ==
                   Invoke("calculate_allowable_bearing_capacity",
                          [ultimate_capacity |-> qu, factor_of_safety |-> fos],
                          calculate_allowable_bearing_capacity(qu, fos))
           IN  Pass(calculate_ultimate_bearing_capacity(
                        w, w, df, F(18, 0), c, phi).val)

CallAppliedPressure ==
    /\ pc = "idle"
    /\ \E q \in Loads, w \in FootingDims, l \in FootingDims :
           Invoke("calculate_applied_pressure",
                  [load |-> q, width |-> w, length |-> l],
                  calculate_applied_pressure(q, w, l))

CallActiveEarthPressureCoefficient ==
    /\ pc = "idle"
    /\ \E phi \in FrictionAngles :
           Invoke("calculate_active_earth_pressure_coefficient",
                  [friction_angle |-> phi],
                  calculate_active_earth_pressure_coefficient(phi))

CallPassiveEarthPressureCoefficient ==
    /\ pc = "idle"
    /\ \E phi \in FrictionAngles :
           Invoke("calculate_passive_earth_pressure_coefficient",
                  [friction_angle |-> phi],
                  calculate_passive_earth_pressure_coefficient(phi))

CallTotalActiveForce ==
    /\ pc = "idle"
    /\ \E h \in WallHeights, g \in WallUnitWeights, phi \in FrictionAngles,
          c \in Cohesions, q \in WallSurcharges :
           Invoke("calculate_total_active_force",
                  [wall_height |-> h, unit_weight |-> g, friction_angle |-> phi,
                   cohesion |-> c, surcharge |-> q],
                  calculate_total_active_force(h, g, phi, c, q))

ShallowFoundationResults ==
    /\ pc = "idle"
    /\ \E w \in FieldFoundationWidth, l \in FieldFoundationLength,
          df \in FieldFoundationDepth, q \in FieldAppliedLoad,
          g \in FieldUnitWeight, c \in FieldCohesion, phi \in FieldFrictionAngle :
           Invoke("_calculate_shallow_foundation",
                  [width |-> w, length |-> l, depth |-> df, load |-> q,
                   unit_weight |-> g, cohesion |-> c, friction_angle |-> phi],
                  Controller_calculate_shallow_foundation(w, l, df, q, g, c, phi))

SinglePileResults ==
    /\ pc = "idle"
    /\ \E d \in FieldPileDiameter, l \in FieldPileLength, t \in FieldPileType,
          q \in FieldAppliedLoadPile, g \in FieldUnitWeight, c \in FieldCohesion,
          phi \in FieldFrictionAngle :
           Invoke("_calculate_single_pile",
                  [diameter |-> d, length |-> l, pile_type |-> t, load |-> q,
                   unit_weight |-> g, cohesion |-> c, friction_angle |-> phi],
                  Controller_calculate_single_pile(d, l, t, q, g, c, phi))

PileGroupResults ==
    /\ pc = "idle"
    /\ \E d \in FieldPileDiameter, l \in FieldPileLength, n \in FieldNumPiles,
          s \in FieldPileSpacing, q \in FieldTotalLoad, g \in FieldUnitWeight,
          c \in FieldCohesion, phi \in FieldFrictionAngle :
           Invoke("_calculate_pile_group",
                  [diameter |-> d, length |-> l, num_piles |-> n, spacing |-> s,
                   total_load |-> q, unit_weight |-> g, cohesion |-> c,
                   friction_angle |-> phi],
                  Controller_calculate_pile_group(d, l, n, s, q, g, c, phi))

RetainingWallResults ==
    /\ pc = "idle"
    /\ \E h \in FieldWallHeight, th \in FieldWallThickness, q \in FieldSurcharge,
          g \in FieldUnitWeight, c \in FieldCohesion, phi \in FieldFrictionAngle :
           Invoke("_calculate_retaining_wall",
                  [height |-> h, thickness |-> th, surcharge |-> q,
                   unit_weight |-> g, cohesion |-> c, friction_angle |-> phi],
                  Controller_calculate_retaining_wall(h, th, q, g, c, phi))

\* the caller consumes the outcome; nothing of the call remains
Return ==
    /\ pc = "done"
    /\ pc' = "idle"
    /\ op' = "none"
    /\ args' = NoArgs
    /\ ret' = NoRet
    /\ UNCHANGED <<callers, layers, added, projects, investigations, designs>>

Next ==
    \/ CallPileEndBearing
    \/ CallPileSkinFriction
    \/ CallPileCapacity
    \/ CallPileCapacityDefault
    \/ CallPileGroupEfficiency
    \/ CallBearingCapacityFactors
    \/ CallUltimateBearingCapacity
    \/ CallAllowableBearingCapacity
    \/ CallAppliedPressure
    \/ CallActiveEarthPressureCoefficient
    \/ CallPassiveEarthPressureCoefficient
    \/ CallTotalActiveForce
    \/ ShallowFoundationResults
    \/ SinglePileResults
    \/ PileGroupResults
    \/ RetainingWallResults
    \/ Return

Spec == Init /\ [][Next]_vars

-----------------------------------------------------------------------------
(* Concurrent callers                                                      *)

\* The calculators are static methods without module-level or class-level
\* variables: every name a running call reads is an argument or a local of
\* its own frame.

\* a calculator run alone, from call to outcome
Alone(name, a) ==
    CASE name = "calculate_pile_end_bearing" ->
             calculate_pile_end_bearing(a.pile_diameter, a.unit_weight,
                                        a.pile_length, a.friction_angle, a.cohesion)
      [] name = "calculate_pile_skin_friction" ->
             calculate_pile_skin_friction(a.pile_diameter, a.pile_length,
                                          a.unit_weight, a.friction_angle,
                                          a.cohesion, a.pile_type)
      [] name = "calculate_pile_capacity" ->
             calculate_pile_capacity(a.pile_diameter, a.pile_length, a.unit_weight,
                                     a.friction_angle, a.cohesion, a.pile_type,
                                     a.factor_of_safety)
      [] name = "calculate_pile_group_efficiency" ->
             calculate_pile_group_efficiency(a.num_piles, a.spacing, a.diameter)
      [] name = "calculate_bearing_capacity_factors" ->
             calculate_bearing_capacity_factors(a.friction_angle)
      [] name = "calculate_ultimate_bearing_capacity" ->
             calculate_ultimate_bearing_capacity(a.width, a.length, a.depth,
                                                 a.unit_weight, a.cohesion,
                                                 a.friction_angle)
      [] name = "calculate_allowable_bearing_capacity" ->
             calculate_allowable_bearing_capacity(a.ultimate_capacity,
                                                  a.factor_of_safety)
      [] name = "calculate_applied_pressure" ->
             calculate_applied_pressure(a.load, a.width, a.length)
      [] name = "calculate_active_earth_pressure_coefficient" ->
             calculate_active_earth_pressure_coefficient(a.friction_angle)
      [] name = "calculate_passive_earth_pressure_coefficient" ->
             calculate_passive_earth_pressure_coefficient(a.friction_angle)
      [] name = "calculate_total_active_force" ->
             calculate_total_active_force(a.wall_height, a.unit_weight,
                                          a.friction_angle, a.cohesion, a.surcharge)

\* how many values returned by nested calls a call holds before its own
\* arithmetic: Qb and Qs; Nc, Nq and Ngamma; Ka
FrameSize(name) ==
    CASE name = "calculate_pile_capacity" -> 2
      [] name = "calculate_ultimate_bearing_capacity" -> 3
      [] name = "calculate_total_active_force" -> 1
      [] OTHER -> 0

\* a returned number as the one value bound to a local
Bound(r) == IF r.exc = "none" THEN Ok(<<r.val>>) ELSE r

\* the nested call made by a call that holds k values, and what it binds
NestedCall(name, a, k) ==
    CASE name = "calculate_pile_capacity" /\ k = 0 ->
             Bound(calculate_pile_end_bearing(a.pile_diameter, a.unit_weight,
                                              a.pile_length, a.friction_angle,
                                              a.cohesion))
      [] name = "calculate_pile_capacity" /\ k # 0 ->
             Bound(calculate_pile_skin_friction(a.pile_diameter, a.pile_length,
                                                a.unit_weight, a.friction_angle,
                                                a.cohesion, a.pile_type))
      [] name = "calculate_ultimate_bearing_capacity" ->
             calculate_bearing_capacity_factors(a.friction_angle)
      [] name = "calculate_total_active_force" ->
             Bound(calculate_active_earth_pressure_coefficient(a.friction_angle))

\* the statements of a call after its nested calls, on the values l they bound
Complete(name, a, l) ==
    CASE name = "calculate_pile_capacity" ->
             LET Allowable(Qu) ==
                     IF a.factor_of_safety = 0
                     THEN Raise("ZeroDivisionError")
                     ELSE Ok(<<Qu, Div(Qu, a.factor_of_safety), l[1], l[2]>>)
             IN  Allowable(Add(l[1], l[2]))
      [] name = "calculate_ultimate_bearing_capacity" ->
             Ok(Add(Add(Mul(a.cohesion, l[1]),
                        Mul(Mul(a.unit_weight, a.depth), l[2])),
                    Mul(Mul(Mul(F(0, 500), a.unit_weight), a.width), l[3])))
      [] name = "calculate_total_active_force" ->
             LET Resultant(Fa_soil, Fa_surcharge) ==
                     LET Located(Fa_total) ==
                             IF Fa_total = 0
                             THEN Raise("ZeroDivisionError")
                             ELSE Ok(<<Fa_total,
                                       Div(Add(Mul(Fa_soil,
                                                   Div(a.wall_height, F(3, 0))),
                                               Mul(Fa_surcharge,
                                                   Div(a.wall_height, F(2, 0)))),
                                           Fa_total)>>)
                     IN  Located(Add(Fa_soil, Fa_surcharge))
             IN  Resultant(Mul(Mul(F(0, 500),
                                   Mul(Mul(l[1], a.unit_weight), a.wall_height)),
                               a.wall_height),
                           Mul(Mul(l[1], a.surcharge), a.wall_height))
      [] OTHER -> Alone(name, a)

\* locals kept in one module-level slot, that of the first caller
Locals_ModuleLevel(cs, i) == cs[1].locals

\* the locals a running call reads are those of its own frame
Locals(cs, i) == cs[i].locals

\* the calls the concurrent callers make
ConcurrentCalls ==
    {[op |-> "calculate_pile_capacity",
      args |-> [pile_diameter |-> F(0, 500), pile_length |-> F(5, 0),
                unit_weight |-> F(18, 0), friction_angle |-> F(30, 0),
                cohesion |-> F(10, 0), pile_type |-> t,
                factor_of_safety |-> PILE_FOS_DEFAULT]] : t \in {"driven", "bored"}}
    \cup
    {[op |-> "calculate_ultimate_bearing_capacity",
      args |-> [width |-> F(2, 0), length |-> F(2, 0), depth |-> F(1, 0),
                unit_weight |-> F(18, 0), cohesion |-> F(10, 0),
                friction_angle |-> phi]] : phi \in {0, F(30, 0), F(90, 0)}}
    \cup
    {[op |-> "calculate_total_active_force",
      args |-> [wall_height |-> F(5, 0), unit_weight |-> g[1],
                friction_angle |-> F(30, 0), cohesion |-> 0,
                surcharge |-> g[2]]] :
         g \in {<<0, 0>>, <<F(18, 0), 0>>, <<F(18, 0), F(10, 0)>>}}
    \cup
    {[op |-> "calculate_pile_end_bearing",
      args |-> [pile_diameter |-> F(0, 500), unit_weight |-> F(18, 0),
                pile_length |-> F(5, 0), friction_angle |-> F(30, 0),
                cohesion |-> F(10, 0)]],
     [op |-> "calculate_pile_skin_friction",
      args |-> [pile_diameter |-> F(0, 500), pile_length |-> F(5, 0),
                unit_weight |-> F(18, 0), friction_angle |-> F(30, 0),
                cohesion |-> F(10, 0), pile_type |-> "driven"]],
     [op |-> "calculate_pile_group_efficiency",
      args |-> [num_piles |-> 4, spacing |-> F(2, 0), diameter |-> F(0, 500)]],
     [op |-> "calculate_bearing_capacity_factors",
      args |-> [friction_angle |-> F(30, 0)]],
     [op |-> "calculate_allowable_bearing_capacity",
      args |-> [ultimate_capacity |-> F(300, 0),
                factor_of_safety |-> BEARING_FOS_DEFAULT]],
     [op |-> "calculate_applied_pressure",
      args |-> [load |-> F(1000, 0), width |-> F(2, 0), length |-> F(2, 0)]],
     [op |-> "calculate_active_earth_pressure_coefficient",
      args |-> [friction_angle |-> F(30, 0)]],
     [op |-> "calculate_passive_earth_pressure_coefficient",
      args |-> [friction_angle |-> F(30, 0)]]}

\* caller i calls a calculator: a new frame with the arguments and no locals
Enter(i) ==
    /\ callers[i].pc = "idle"
    /\ \E c \in ConcurrentCalls :
           callers' = [callers EXCEPT ![i] =
                           [pc |-> "running", op |-> c.op, args |-> c.args,
                            locals |-> <<>>, ret |-> NoRet]]
    /\ UNCHANGED <<pc, op, args, ret, layers, added, projects, investigations, designs>>

\* the call of caller i makes its next nested call and binds what it returns;
\* an exception of the nested call ends the call
Nested(i) ==
    /\ callers[i].pc = "running"
    /\ Len(Locals(callers, i)) < FrameSize(callers[i].op)
    /\ LET Bind(r) ==
               IF r.exc = "none"
               THEN [callers EXCEPT ![i].locals = Locals(callers, i) \o r.val]
               ELSE [callers EXCEPT ![i].pc = "returned", ![i].ret = r]
       IN  callers' = Bind(NestedCall(callers[i].op, callers[i].args,
                                      Len(Locals(callers, i))))
    /\ UNCHANGED <<pc, op, args, ret, layers, added, projects, investigations, designs>>

\* the call of caller i runs its remaining statements and returns
Finish(i) ==
    /\ callers[i].pc = "running"
    /\ Len(Locals(callers, i)) = FrameSize(callers[i].op)
    /\ callers' = [callers EXCEPT
                       ![i].pc = "returned",
                       ![i].ret = Complete(callers[i].op, callers[i].args,
                                           Locals(callers, i))]
    /\ UNCHANGED <<pc, op, args, ret, layers, added, projects, investigations, designs>>

\* caller i consumes the outcome; the frame is gone
Leave(i) ==
    /\ callers[i].pc = "returned"
    /\ callers' = [callers EXCEPT ![i] = IdleCaller]
    /\ UNCHANGED <<pc, op, args, ret, layers, added, projects, investigations, designs>>

CallerEnters == \E i \in Callers : Enter(i)

CallerCallsNested == \E i \in Callers : Nested(i)

CallerFinishes == \E i \in Callers : Finish(i)

CallerLeaves == \E i \in Callers : Leave(i)

ConcurrentNext ==
    \/ CallerEnters
    \/ CallerCallsNested
    \/ CallerFinishes
    \/ CallerLeaves

ConcurrentSpec == Init /\ [][ConcurrentNext]_vars

-----------------------------------------------------------------------------
(* Borehole (src/project_models.py)                                        *)

MaxLayers == 3

\* depth_top of a layer, in metres below the surface
DepthTops == {0, F(2, 0), F(5, 0)}

SoilTypes == {"Sand", "Clay"}

\* depth_bottom of a layer; a layer may be empty or upside down
DepthBottoms == {F(2, 0), F(5, 0)}

\* the SoilLayer objects handed to add_layer
SoilLayers == [depth_top : DepthTops, depth_bottom : DepthBottoms, soil_type : SoilTypes]

\* list.sort(key=lambda x: x.depth_top): a stable sort, a layer goes after
\* every layer before it in the list whose depth_top is not greater
RECURSIVE ListSortByDepthTop(_)
ListSortByDepthTop(list) ==
    IF list = <<>>
    THEN <<>>
    ELSE LET InsertLast(sorted, x) ==
                 LET n == Cardinality({k \in 1..Len(sorted) :
                                          sorted[k].depth_top <= x.depth_top})
                 IN  SubSeq(sorted, 1, n) \o <<x>>
                         \o SubSeq(sorted, n + 1, Len(sorted))
         IN  InsertLast(ListSortByDepthTop(SubSeq(list, 1, Len(list) - 1)),
                        list[Len(list)])

\* add_layer that puts the layer in front and does not sort
Borehole_add_layer_Front(list, layer) == <<layer>> \o list

\* Borehole.add_layer: append, then sort the whole list by depth_top
Borehole_add_layer(list, layer) == ListSortByDepthTop(Append(list, layer))

\* get_layer_at_depth with the bottom of a layer counted in
RECURSIVE Borehole_get_layer_at_depth_BottomInclusive(_, _)
Borehole_get_layer_at_depth_BottomInclusive(list, depth) ==
    IF list = <<>>
    THEN None
    ELSE IF Head(list).depth_top <= depth /\ depth <= Head(list).depth_bottom
    THEN Some(Head(list))
    ELSE Borehole_get_layer_at_depth_BottomInclusive(Tail(list), depth)

\* Borehole.get_layer_at_depth: the first layer of the list, in list order,
\* with depth_top <= depth < depth_bottom
RECURSIVE Borehole_get_layer_at_depth(_, _)
Borehole_get_layer_at_depth(list, depth) ==
    IF list = <<>>
    THEN None
    ELSE IF Head(list).depth_top <= depth /\ depth < Head(list).depth_bottom
    THEN Some(Head(list))
    ELSE Borehole_get_layer_at_depth(Tail(list), depth)

\* the depths asked for
QueryDepths == {-F(1, 0), 0, F(2, 0), F(3, 0), F(5, 0)}

AddLayer ==
    /\ pc = "idle"
    /\ Len(added) < MaxLayers
    /\ \E layer \in SoilLayers :
           /\ layers' = Borehole_add_layer(layers, layer)
           /\ added' = Append(added, layer)
    /\ UNCHANGED <<pc, op, args, ret, callers, projects, investigations, designs>>

GetLayerAtDepth ==
    /\ pc = "idle"
    /\ \E depth \in QueryDepths :
           /\ pc' = "done"
           /\ op' = "get_layer_at_depth"
           /\ args' = [depth |-> depth]
           /\ ret' = Ok(Borehole_get_layer_at_depth(layers, depth))
    /\ UNCHANGED <<layers, added, callers, projects, investigations, designs>>

BoreholeNext ==
    \/ AddLayer
    \/ GetLayerAtDepth
    \/ Return

BoreholeSpec == Init /\ [][BoreholeNext]_vars

-----------------------------------------------------------------------------
(* GeotechnicalProject (src/project_models.py)                             *)

MaxEntries == 2

\* the SoilInvestigation objects, by name
InvestigationIds == {"SI-1", "SI-2"}

\* datetime.min, the earliest datetime there is; later ones count up from it
DATETIME_MIN == 0

\* investigation_date: Optional[datetime]
InvestigationDates == {None, Some(DATETIME_MIN), Some(DATETIME_MIN + 1)}

\* the two values a method that changes a project leaves behind
Heap(ps, objs) == [projects |-> ps, objects |-> objs]

\* add_soil_investigation that keeps the project_id of an investigation that
\* already belongs to a project
GeotechnicalProject_add_soil_investigation_Keep(ps, invs, self, investigation) ==
    Heap([ps EXCEPT ![self].soil_investigations = Append(@, investigation)],
         IF invs[investigation].project_id \in ProjectIds
         THEN invs
         ELSE [invs EXCEPT ![investigation].project_id = self])

\* GeotechnicalProject.add_soil_investigation: set the project_id of the
\* object, append the object to the list
GeotechnicalProject_add_soil_investigation(ps, invs, self, investigation) ==
    Heap([ps EXCEPT ![self].soil_investigations = Append(@, investigation)],
         [invs EXCEPT ![investigation].project_id = self])

\* GeotechnicalProject.add_foundation_design
GeotechnicalProject_add_foundation_design(ps, ds, self, design) ==
    Heap([ps EXCEPT ![self].foundation_designs = Append(@, design)],
         [ds EXCEPT ![design].project_id = self])

\* key=lambda x: x.investigation_date if x.investigation_date else datetime.min
ActiveKey(inv) ==
    IF inv.investigation_date # None THEN inv.investigation_date[1] ELSE DATETIME_MIN

\* max(list, key=...): an item replaces the best so far only when its key is
\* greater, so the first of several greatest items is returned
RECURSIVE BuiltinMaxByDate(_, _, _)
BuiltinMaxByDate(invs, best, rest) ==
    IF rest = <<>>
    THEN best
    ELSE BuiltinMaxByDate(invs,
                          IF ActiveKey(invs[Head(rest)]) > ActiveKey(invs[best])
                          THEN Head(rest) ELSE best,
                          Tail(rest))

\* GeotechnicalProject.get_active_soil_investigation
GeotechnicalProject_get_active_soil_investigation(ps, invs, self) ==
    IF ps[self].soil_investigations = <<>>
    THEN None
    ELSE Some(BuiltinMaxByDate(invs, Head(ps[self].soil_investigations),
                               Tail(ps[self].soil_investigations)))

\* SoilInvestigation(id, name, project_id, investigation_date=...)
NewSoilInvestigation ==
    /\ pc = "idle"
    /\ \E i \in InvestigationIds \ DOMAIN investigations, date \in InvestigationDates :
           investigations' =
               investigations @@ (i :> [project_id |-> ForeignProjectId,
                                        investigation_date |-> date])
    /\ UNCHANGED <<pc, op, args, ret, callers, layers, added, projects, designs>>

AddSoilInvestigation ==
    /\ pc = "idle"
    /\ \E p \in ProjectIds, i \in DOMAIN investigations :
           /\ Len(projects[p].soil_investigations) < MaxEntries
           /\ LET Store(h) ==
                      /\ projects' = h.projects
                      /\ investigations' = h.objects
              IN  Store(GeotechnicalProject_add_soil_investigation(
                            projects, investigations, p, i))
           /\ pc' = "done"
           /\ op' = "add_soil_investigation"
           /\ args' = [self |-> p, investigation |-> i]
           /\ ret' = Ok(None)
    /\ UNCHANGED <<callers, layers, added, designs>>

AddFoundationDesign ==
    /\ pc = "idle"
    /\ \E p \in ProjectIds, d \in DesignIds :
           /\ Len(projects[p].foundation_designs) < MaxEntries
           /\ LET Store(h) ==
                      /\ projects' = h.projects
                      /\ designs' = h.objects
              IN  Store(GeotechnicalProject_add_foundation_design(
                            projects, designs, p, d))
           /\ pc' = "done"
           /\ op' = "add_foundation_design"
           /\ args' = [self |-> p, design |-> d]
           /\ ret' = Ok(None)
    /\ UNCHANGED <<callers, layers, added, investigations>>

GetActiveSoilInvestigation ==
    /\ pc = "idle"
    /\ \E p \in ProjectIds :
           /\ pc' = "done"
           /\ op' = "get_active_soil_investigation"
           /\ args' = [self |-> p]
           /\ ret' = Ok(GeotechnicalProject_get_active_soil_investigation(
                            projects, investigations, p))
    /\ UNCHANGED <<callers, layers, added, projects, investigations, designs>>

ProjectNext ==
    \/ NewSoilInvestigation
    \/ AddSoilInvestigation
    \/ AddFoundationDesign
    \/ GetActiveSoilInvestigation
    \/ Return

ProjectSpec == Init /\ [][ProjectNext]_vars

-----------------------------------------------------------------------------
(* SoilInvestigation.get_average_properties (src/project_models.py)        *)

MaxBoreholes == 2

\* a layer with the soil properties that were measured in it
Measured(top, bottom, unit_weight, cohesion, friction_angle) ==
    [depth_top |-> top, depth_bottom |-> bottom, unit_weight |-> unit_weight,
     cohesion |-> cohesion, friction_angle |-> friction_angle]

TopSand == Measured(0, F(2, 0), Some(F(16, 0)), None, Some(F(30, 0)))

SoftClay == Measured(F(2, 0), F(5, 0), Some(F(19, 0)), Some(0), None)

StiffClay == Measured(F(5, 0), F(8, 0), None, Some(F(10, 0)), None)

\* the boreholes of a site, their layers in the order add_layer keeps
SiteBoreholes ==
    {<<>>, <<TopSand>>, <<StiffClay>>, <<TopSand, SoftClay>>, <<SoftClay, StiffClay>>}

\* SoilInvestigation.boreholes: up to MaxBoreholes boreholes
Sites == UNION {[1..n -> SiteBoreholes] : n \in 0..MaxBoreholes}

\* depth_range: None or the empty tuple, or (depth_top, depth_bottom)
DepthRanges ==
    {None, <<0, F(1, 0)>>, <<F(2, 0), F(2, 0)>>, <<F(5, 0), F(6, 0)>>,
     <<F(9, 0), F(10, 0)>>, <<0, F(10, 0)>>}

AverageKeys == {"unit_weight", "cohesion", "friction_angle"}

\* for borehole in self.boreholes: for layer in borehole.layers
RECURSIVE AllLayers(_)
AllLayers(boreholes) ==
    IF boreholes = <<>> THEN <<>> ELSE Head(boreholes) \o AllLayers(Tail(boreholes))

\* sum(values)
RECURSIVE BuiltinSum(_)
BuiltinSum(values) ==
    IF values = <<>> THEN 0 ELSE Add(BuiltinSum(SubSeq(values, 1, Len(values) - 1)), values[Len(values)][1])

\* get_average_properties that skips a property whose value is falsy
SoilInvestigation_get_average_properties_Truthy(boreholes, depth_range) ==
    LET Kept(layer) ==
            ~(/\ depth_range # <<>>
              /\ (\/ layer.depth_top > depth_range[2]
                  \/ layer.depth_bottom < depth_range[1]))
        Values(key) ==
            SelectSeq([k \in 1..Len(SelectSeq(AllLayers(boreholes), Kept)) |->
                           SelectSeq(AllLayers(boreholes), Kept)[k][key]],
                      LAMBDA v : v # None /\ v # Some(0))
    IN  Ok([key \in {k \in AverageKeys : Values(k) # <<>>} |->
                Div(BuiltinSum(Values(key)), F(Len(Values(key)), 0))])

\* SoilInvestigation.get_average_properties
SoilInvestigation_get_average_properties(boreholes, depth_range) ==
    LET Kept(layer) ==
            ~(/\ depth_range # <<>>
              /\ (\/ layer.depth_top > depth_range[2]
                  \/ layer.depth_bottom < depth_range[1]))
        Values(key) ==
            SelectSeq([k \in 1..Len(SelectSeq(AllLayers(boreholes), Kept)) |->
                           SelectSeq(AllLayers(boreholes), Kept)[k][key]],
                      LAMBDA v : v # None)
    IN  Ok([key \in {k \in AverageKeys : Values(k) # <<>>} |->
                Div(BuiltinSum(Values(key)), F(Len(Values(key)), 0))])

GetAverageProperties ==
    /\ pc = "idle"
    /\ \E boreholes \in Sites, depth_range \in DepthRanges :
           /\ pc' = "done"
           /\ op' = "get_average_properties"
           /\ args' = [boreholes |-> boreholes, depth_range |-> depth_range]
           /\ ret' = SoilInvestigation_get_average_properties(boreholes, depth_range)
    /\ UNCHANGED <<callers, layers, added, projects, investigations, designs>>

AverageNext ==
    \/ GetAverageProperties
    \/ Return

AverageSpec == Init /\ [][AverageNext]_vars

-----------------------------------------------------------------------------
(* Properties                                                              *)

Returned(name) == pc = "done" /\ op = name /\ ret.exc = "none"

Raised(name) == pc = "done" /\ op = name /\ ret.exc # "none"

\* C1: every calculate_pile_capacity call that returns gives (Qu, Qa, Qb, Qs)
\* with Qu = Qb + Qs and Qa = Qu / factor_of_safety, Qb and Qs being what
\* calculate_pile_end_bearing and calculate_pile_skin_friction return for the
\* same arguments; without a factor_of_safety argument the divisor is 2.5; and
\* the only non-zero-factor calls that do not return are those whose end
\* bearing raises.
C1_PileCapacityRelations ==
    /\ Returned("calculate_pile_capacity") =>
           /\ args.factor_of_safety # 0
           /\ ret.val[3] = calculate_pile_end_bearing(
                               args.pile_diameter, args.unit_weight,
                               args.pile_length, args.friction_angle,
                               args.cohesion).val
           /\ ret.val[4] = calculate_pile_skin_friction(
                               args.pile_diameter, args.pile_length,
                               args.unit_weight, args.friction_angle,
                               args.cohesion, args.pile_type).val
           /\ ret.val[1] = ret.val[3] + ret.val[4]
           /\ ret.val[2] = Div(ret.val[1], args.factor_of_safety)
           /\ args.defaulted => ret.val[2] = Div(ret.val[1], F(2, 500))
    /\ Raised("calculate_pile_capacity") =>
           \/ args.factor_of_safety = 0
           \/ calculate_pile_end_bearing(
                  args.pile_diameter, args.unit_weight, args.pile_length,
                  args.friction_angle, args.cohesion).exc # "none"

C1_Witness ==
    /\ Returned("calculate_pile_capacity")
    /\ args.defaulted
    /\ args.pile_diameter > 0
    /\ args.pile_length > 0
    /\ args.unit_weight > 0
    /\ args.cohesion >= 0
    /\ args.friction_angle > 0
    /\ args.friction_angle <= F(45, 0)
    /\ ret.val[3] > 0
    /\ ret.val[4] > 0
    /\ ret.val[2] < ret.val[1]

\* The piecewise efficiency of the specification over a ratio r
SpecEfficiency(r) ==
    IF r >= F(6, 0) THEN F(1, 0)
    ELSE IF r >= F(3, 0)
    THEN Add(F(0, 700), Div(Mul(F(0, 300), Sub(r, F(3, 0))), F(3, 0)))
    ELSE Div(Mul(F(0, 700), r), F(3, 0))

\* C2: the efficiency is the piecewise function of r = spacing/diameter alone:
\* 1.0 for r >= 6, 0.7 + 0.3(r-3)/3 for 3 <= r < 6, 0.7 r/3 for r < 3; no
\* other num_piles and no other spacing and diameter of the same ratio change it.
C2_EfficiencyOfRatio ==
    Returned("calculate_pile_group_efficiency") =>
        /\ ret.val = SpecEfficiency(Div(args.spacing, args.diameter))
        /\ \A n \in PileCounts :
               calculate_pile_group_efficiency(n, args.spacing, args.diameter) = ret
        /\ \A s \in Spacings, d \in Diameters \ {0} :
               Div(s, d) = Div(args.spacing, args.diameter) =>
                   calculate_pile_group_efficiency(args.num_piles, s, d) = ret

C2_Witness ==
    /\ Returned("calculate_pile_group_efficiency")
    /\ args.num_piles > 1
    /\ args.spacing > 0
    /\ args.diameter > 0
    /\ Div(args.spacing, args.diameter) > F(3, 0)
    /\ Div(args.spacing, args.diameter) < F(6, 0)
    /\ ret.val > F(0, 700)
    /\ ret.val < F(1, 0)

C4_EfficiencyClamped ==
    (/\ pc = "done"
     /\ op = "calculate_pile_group_efficiency"
     /\ args.diameter # 0) =>
        /\ ret.exc = "none"
        /\ ret.val >= 0
        /\ ret.val <= F(1, 0)

\* Valid pile arguments: positive diameter and length, non-negative unit
\* weight and cohesion, friction angle in [0, 90)
ValidPile(a) ==
    /\ a.pile_diameter > 0
    /\ a.pile_length > 0
    /\ a.unit_weight >= 0
    /\ a.cohesion >= 0
    /\ a.friction_angle >= 0
    /\ a.friction_angle < F(90, 0)

\* Qu of the bored pile with the arguments a of a calculate_pile_capacity call
BoredCapacity(a) ==
    calculate_pile_capacity(a.pile_diameter, a.pile_length, a.unit_weight,
                            a.friction_angle, a.cohesion, "bored",
                            a.factor_of_safety)

GroupSinglePile(a, fos) ==
    calculate_pile_capacity(a.diameter, a.length, a.unit_weight,
                            a.friction_angle, a.cohesion, "bored", fos)

\* C6: Qu_group = Qu_single * num_piles * efficiency and Qa_group =
\* Qu_group / 2.5, the divisor 2.5 being fixed whichever factor of safety the
\* single-pile allowable capacity is computed with.
C6_GroupCapacity ==
    Returned("_calculate_pile_group") =>
        /\ ret.val.Qu_single = GroupSinglePile(args, PILE_FOS_DEFAULT).val[1]
        /\ ret.val.efficiency =
               calculate_pile_group_efficiency(args.num_piles, args.spacing,
                                               args.diameter).val
        /\ ret.val.Qu_group =
               Mul(Mul(ret.val.Qu_single, F(args.num_piles, 0)), ret.val.efficiency)
        /\ ret.val.Qa_group = Div(ret.val.Qu_group, F(2, 500))
        /\ \A fos \in SafetyFactors \ {0} :
               ret.val.Qa_group =
                   Div(Mul(Mul(GroupSinglePile(args, fos).val[1],
                               F(args.num_piles, 0)),
                           ret.val.efficiency),
                       F(2, 500))

C6_Witness ==
    /\ Returned("_calculate_pile_group")
    /\ ret.val.efficiency < F(1, 0)
    /\ ret.val.Qa_group > 0
    /\ ret.val.Qa_group < ret.val.Qu_group
    /\ GroupSinglePile(args, F(3, 0)).val[2] # ret.val.Qa_single

\* C7 as stated: Qa_group never exceeds num_piles * Qa_single and is strictly
\* less whenever spacing/diameter < 6.
C7_GroupAllowableBounded ==
    (Returned("_calculate_pile_group") /\ ret.val.Qu_single > 0) =>
        /\ ret.val.Qa_group <= Mul(F(args.num_piles, 0), ret.val.Qa_single)
        /\ Div(args.spacing, args.diameter) < F(6, 0) =>
               ret.val.Qa_group < Mul(F(args.num_piles, 0), ret.val.Qa_single)

\* C7 amended: Qu_group never exceeds num_piles * Qu_single and is strictly
\* less whenever the efficiency is below 1.0; Qa_group never exceeds
\* (num_piles * Qu_single) / 2.5, is strictly less than num_piles * Qa_single
\* whenever spacing/diameter <= 5.9, and exceeds num_piles * Qa_single by no
\* more than the rounding error of the divisions (num_piles units of the last
\* digit), which it does at efficiency 1.0.
C7_GroupUltimateBounded ==
    (Returned("_calculate_pile_group") /\ ret.val.Qu_single > 0) =>
        /\ ret.val.Qu_group <= Mul(ret.val.Qu_single, F(args.num_piles, 0))
        /\ ret.val.efficiency < F(1, 0) =>
               ret.val.Qu_group < Mul(ret.val.Qu_single, F(args.num_piles, 0))
        /\ ret.val.Qa_group <=
               Div(Mul(ret.val.Qu_single, F(args.num_piles, 0)), F(2, 500))
        /\ Div(args.spacing, args.diameter) <= F(5, 900) =>
               ret.val.Qa_group < Mul(F(args.num_piles, 0), ret.val.Qa_single)
        /\ ret.val.Qa_group <=
               Mul(F(args.num_piles, 0), ret.val.Qa_single) + args.num_piles

C7_Witness ==
    /\ Returned("_calculate_pile_group")
    /\ ret.val.Qu_single > 0
    /\ ret.val.efficiency = F(1, 0)
    /\ ret.val.Qa_group > Mul(F(args.num_piles, 0), ret.val.Qa_single)
    /\ ret.val.Qu_group = Mul(ret.val.Qu_single, F(args.num_piles, 0))

\* The allowable value and the demand of a safety-factor composition
Allowable ==
    CASE op = "_calculate_shallow_foundation" -> ret.val.qa
      [] op = "_calculate_single_pile" -> ret.val.Qa
      [] op = "_calculate_pile_group" -> ret.val.Qa_group

Demand ==
    CASE op = "_calculate_shallow_foundation" ->
             calculate_applied_pressure(args.load, args.width, args.length).val
      [] op = "_calculate_single_pile" -> args.load
      [] op = "_calculate_pile_group" -> args.total_load

SafetyFactorOps ==
    {"_calculate_shallow_foundation", "_calculate_single_pile",
     "_calculate_pile_group"}

\* C8: in the shallow-foundation, single-pile and pile-group compositions a
\* demand of exactly 0 gives safety factor +infinity and the calculation
\* returns without raising; a positive demand gives allowable / demand.
C8_SafetyFactor ==
    (pc = "done" /\ op \in SafetyFactorOps) =>
        /\ Demand = 0 =>
               /\ ret.exc = "none"
               /\ ret.val.safety_factor = INF
        /\ (Demand > 0 /\ ret.exc = "none") =>
               ret.val.safety_factor = Div(Allowable, Demand)

C8_Witness ==
    /\ Returned("_calculate_single_pile")
    /\ args.load = 0
    /\ ret.val.safety_factor = INF
    /\ ret.val.Qa > 0

\* The static calculator operations
CalculatorOps ==
    {"calculate_bearing_capacity_factors", "calculate_ultimate_bearing_capacity",
     "calculate_allowable_bearing_capacity", "calculate_applied_pressure",
     "calculate_pile_end_bearing", "calculate_pile_skin_friction",
     "calculate_pile_capacity", "calculate_pile_group_efficiency",
     "calculate_active_earth_pressure_coefficient",
     "calculate_passive_earth_pressure_coefficient",
     "calculate_total_active_force"}

\* Arguments that are lengths of the structure
GeometryFields ==
    {"width", "length", "depth", "pile_diameter", "diameter", "pile_length",
     "wall_height", "spacing"}

\* The soil arguments of a call are valid: unit weight and cohesion are not
\* negative and the friction angle is in [0, 90)
SoilValid(a) ==
    /\ "unit_weight" \in DOMAIN a => a.unit_weight >= 0
    /\ "cohesion" \in DOMAIN a => a.cohesion >= 0
    /\ "friction_angle" \in DOMAIN a =>
           (a.friction_angle >= 0 /\ a.friction_angle < F(90, 0))

\* The lengths of a call are valid: all are positive
GeometryValid(a) == \A f \in DOMAIN a \cap GeometryFields : a[f] > 0

\* C9: a calculator operation given a non-positive width, length, depth,
\* pile diameter, pile length, wall height or pile spacing (its other
\* arguments being valid) raises an error and returns no number.
C9_GeometryRejected ==
    (/\ pc = "done"
     /\ op \in CalculatorOps
     /\ ~GeometryValid(args)
     /\ SoilValid(args)) => ret.exc # "none"

\* C10: a calculator operation given a negative unit weight, a negative
\* cohesion or a friction angle outside [0, 90) (its lengths being valid)
\* raises an error and returns no number; in particular a friction angle of
\* 90 degrees gives no factor, capacity or coefficient.
C10_SoilRejected ==
    (/\ pc = "done"
     /\ op \in CalculatorOps
     /\ ~SoilValid(args)
     /\ GeometryValid(args)) => ret.exc # "none"

\* The arguments of a call pass the validation rules: positive lengths,
\* non-negative unit weight, cohesion, load and surcharge, friction angle in
\* [0, 90), positive factor of safety
InputValid(a) ==
    /\ GeometryValid(a)
    /\ SoilValid(a)
    /\ "surcharge" \in DOMAIN a => a.surcharge >= 0
    /\ "load" \in DOMAIN a => a.load >= 0
    /\ "ultimate_capacity" \in DOMAIN a => a.ultimate_capacity >= 0
    /\ "factor_of_safety" \in DOMAIN a => a.factor_of_safety > 0

\* C11: every calculator operation called with arguments that pass the
\* validation rules returns its result without raising, calculate_total_active_force
\* with unit weight 0 and surcharge 0 included.
C11_ValidInputCompletes ==
    (/\ pc = "done"
     /\ op \in CalculatorOps
     /\ InputValid(args)) => ret.exc = "none"

FactorsOf(a) == calculate_bearing_capacity_factors(a.friction_angle).val

\* The Terzaghi sum of the specification for the arguments a and factors f
TerzaghiSum(a, f) ==
    Add(Add(Mul(a.cohesion, f[1]), Mul(Mul(a.unit_weight, a.depth), f[2])),
        Mul(Mul(Mul(F(0, 500), a.unit_weight), a.width), f[3]))

\* C14 as stated: qu = cohesion*Nc + unit_weight*depth*Nq +
\* 0.5*unit_weight*width*Ngamma with the factors of
\* calculate_bearing_capacity_factors, whatever the footing length, and for
\* friction angle 0 qu = 5.14*cohesion + unit_weight*depth.
C14_UltimateCapacityExact ==
    Returned("calculate_ultimate_bearing_capacity") =>
        /\ ret.val = TerzaghiSum(args, FactorsOf(args))
        /\ \A l \in FootingDims :
               calculate_ultimate_bearing_capacity(
                   args.width, l, args.depth, args.unit_weight, args.cohesion,
                   args.friction_angle) = ret
        /\ (args.friction_angle = 0 /\ InputValid(args)) =>
               ret.val = Add(Mul(F(5, 140), args.cohesion),
                             Mul(args.unit_weight, args.depth))

\* C14 amended: as stated, except that for friction angle 0 qu =
\* 5.14*cohesion + unit_weight*depth*Nq with Nq = tan(radians(45)) ** 2, which
\* is 5.14*cohesion + unit_weight*depth only to within rounding.
C14_UltimateCapacity ==
    Returned("calculate_ultimate_bearing_capacity") =>
        /\ ret.val = TerzaghiSum(args, FactorsOf(args))
        /\ \A l \in FootingDims :
               calculate_ultimate_bearing_capacity(
                   args.width, l, args.depth, args.unit_weight, args.cohesion,
                   args.friction_angle) = ret
        /\ args.friction_angle = 0 =>
               /\ ret.val = Add(Mul(args.cohesion, F(5, 140)),
                                Mul(Mul(args.unit_weight, args.depth),
                                    Sq(MathTan(MathRadians(F(45, 0))))))
               /\ Abs(ret.val - Add(Mul(F(5, 140), args.cohesion),
                                    Mul(args.unit_weight, args.depth)))
                      <= Abs(Mul(Mul(args.unit_weight, args.depth), 2)) + 1

C14_Witness ==
    /\ Returned("calculate_ultimate_bearing_capacity")
    /\ InputValid(args)
    /\ args.friction_angle > 0
    /\ args.cohesion > 0
    /\ args.unit_weight > 0
    /\ args.width # args.length
    /\ FactorsOf(args)[3] > 0
    /\ ret.val > Mul(args.cohesion, FactorsOf(args)[1])

-----------------------------------------------------------------------------
(* Total active force on a wall                                            *)

\* the active coefficient of a wall call's friction angle
KaOf(a) == calculate_active_earth_pressure_coefficient(a.friction_angle).val

\* 0.5 * Ka * unit_weight * H^2, multiplied in the order of the code
ActiveSoilForce(a) ==
    Mul(Mul(F(0, 500), Mul(Mul(KaOf(a), a.unit_weight), a.wall_height)),
        a.wall_height)

\* Ka * surcharge * H
ActiveSurchargeForce(a) == Mul(Mul(KaOf(a), a.surcharge), a.wall_height)

\* the moment of the two forces about the base divided by their sum
ActiveLocation(a, Fa_soil, Fa_surcharge) ==
    Div(Add(Mul(Fa_soil, Div(a.wall_height, F(3, 0))),
            Mul(Fa_surcharge, Div(a.wall_height, F(2, 0)))),
        Add(Fa_soil, Fa_surcharge))

\* C15 as stated: with surcharge 0 and a positive force, the location returned
\* by calculate_total_active_force is exactly H/3.
C15_LocationExactlyThird ==
    (/\ Returned("calculate_total_active_force")
     /\ InputValid(args)
     /\ args.surcharge = 0
     /\ ret.val[1] > 0) => ret.val[2] = Div(args.wall_height, F(3, 0))

\* C15 amended: calculate_total_active_force returns Fa = Fa_soil +
\* Fa_surcharge and the location (Fa_soil*H/3 + Fa_surcharge*H/2) / Fa; with
\* surcharge 0 and a positive force the location is (Fa*(H/3)) / Fa, which is
\* H/3 to within the rounding of the product and of the quotient.
C15_TotalActiveForce ==
    Returned("calculate_total_active_force") =>
        /\ ret.val[1] = Add(ActiveSoilForce(args), ActiveSurchargeForce(args))
        /\ ret.val[2] = ActiveLocation(args, ActiveSoilForce(args),
                                       ActiveSurchargeForce(args))
        /\ (args.surcharge = 0 /\ ret.val[1] > 0 /\ InputValid(args)) =>
               /\ ret.val[2] = Div(Mul(ret.val[1], Div(args.wall_height, F(3, 0))),
                                   ret.val[1])
               /\ Abs(ret.val[2] - Div(args.wall_height, F(3, 0)))
                      <= (SCALE \div 2) \div ret.val[1] + 1

C15_Witness ==
    /\ Returned("calculate_total_active_force")
    /\ InputValid(args)
    /\ args.surcharge = 0
    /\ ret.val[1] > 0
    /\ ret.val[2] # Div(args.wall_height, F(3, 0))

\* a call with a surcharge, where both forces contribute
C15_WitnessSurcharge ==
    /\ Returned("calculate_total_active_force")
    /\ InputValid(args)
    /\ ActiveSoilForce(args) > 0
    /\ ActiveSurchargeForce(args) > 0
    /\ ret.val[2] > Div(args.wall_height, F(3, 0))

\* the same wall call with surcharge 0
WithoutSurcharge(a) ==
    calculate_total_active_force(a.wall_height, a.unit_weight, a.friction_angle,
                                 a.cohesion, 0)

\* the force and the location of r are both strictly above those of r0
StrictlyAbove(r, r0) ==
    /\ r0.exc = "none"
    /\ r.val[1] > r0.val[1]
    /\ r.val[2] > r0.val[2]

\* a wall call of positive height and unit weight, friction angle in [0, 90)
WallValid(a) ==
    /\ a.wall_height > 0
    /\ a.unit_weight > 0
    /\ a.friction_angle >= 0
    /\ a.friction_angle < F(90, 0)

\* C16 as stated: every positive surcharge gives a strictly greater force and
\* a strictly higher location than surcharge 0.
C16_SurchargeStrictlyRaises ==
    (/\ Returned("calculate_total_active_force")
     /\ WallValid(args)
     /\ args.surcharge > 0) => StrictlyAbove(ret, WithoutSurcharge(args))

\* C16 amended: a positive surcharge of at least unit_weight * H / 1000 gives
\* a strictly greater force and a strictly higher location than surcharge 0;
\* a smaller one can vanish in the rounding of Ka * surcharge.
C16_SurchargeRaises ==
    (/\ Returned("calculate_total_active_force")
     /\ WallValid(args)
     /\ args.surcharge > 0
     /\ Mul(args.surcharge, F(1000, 0)) >= Mul(args.unit_weight, args.wall_height))
        => StrictlyAbove(ret, WithoutSurcharge(args))

C16_Witness ==
    /\ Returned("calculate_total_active_force")
    /\ WallValid(args)
    /\ args.surcharge > 0
    /\ Mul(args.surcharge, F(1000, 0)) >= Mul(args.unit_weight, args.wall_height)
    /\ StrictlyAbove(ret, WithoutSurcharge(args))
    /\ ret.val[2] < Div(args.wall_height, F(2, 0))

\* C17: the result of calculate_total_active_force does not depend on the
\* cohesion argument: the same call with any other cohesion has the same
\* outcome, the same total force and the same location.
C17_CohesionIgnored ==
    (pc = "done" /\ op = "calculate_total_active_force") =>
        \A c \in Cohesions :
            calculate_total_active_force(args.wall_height, args.unit_weight,
                                         args.friction_angle, c,
                                         args.surcharge) = ret

C17_Witness ==
    /\ Returned("calculate_total_active_force")
    /\ InputValid(args)
    /\ args.cohesion > 0
    /\ args.unit_weight > 0
    /\ args.surcharge > 0
    /\ ret.val[1] > 0
    /\ ret = calculate_total_active_force(args.wall_height, args.unit_weight,
                                          args.friction_angle, 0, args.surcharge)

-----------------------------------------------------------------------------
(* Rankine coefficients                                                    *)

\* the active and the passive coefficient of the friction angle of a call that
\* returned one of them
RankinePair(a) ==
    <<calculate_active_earth_pressure_coefficient(a.friction_angle).val,
      calculate_passive_earth_pressure_coefficient(a.friction_angle).val>>

RankineOps ==
    {"calculate_active_earth_pressure_coefficient",
     "calculate_passive_earth_pressure_coefficient"}

\* the coefficient a call returned is the one of the pair
RankineReturned ==
    /\ pc = "done"
    /\ op \in RankineOps
    /\ ret.exc = "none"
    /\ ret.val = IF op = "calculate_active_earth_pressure_coefficient"
                 THEN RankinePair(args)[1] ELSE RankinePair(args)[2]

\* C18 as stated: for a friction angle in (0, 90), Ka * Kp = 1 exactly and
\* Kp > Ka.
C18_ReciprocalExact ==
    (/\ pc = "done"
     /\ op \in RankineOps
     /\ args.friction_angle > 0
     /\ args.friction_angle < F(90, 0)) =>
        /\ RankineReturned
        /\ Mul(RankinePair(args)[1], RankinePair(args)[2]) = F(1, 0)
        /\ RankinePair(args)[2] > RankinePair(args)[1]

\* C18 amended: for a friction angle from 1 to 89 degrees, Ka * Kp is 1 to
\* within the rounding of the two squared tangents and of their product, and
\* Kp > Ka.
C18_Reciprocal ==
    (/\ pc = "done"
     /\ op \in RankineOps
     /\ args.friction_angle >= F(1, 0)
     /\ args.friction_angle <= F(89, 0)) =>
        /\ RankineReturned
        /\ Abs(Mul(RankinePair(args)[1], RankinePair(args)[2]) - F(1, 0))
               <= (RankinePair(args)[1] + RankinePair(args)[2]) \div SCALE + 1
        /\ RankinePair(args)[2] > RankinePair(args)[1]

C18_Witness ==
    /\ RankineReturned
    /\ op = "calculate_passive_earth_pressure_coefficient"
    /\ args.friction_angle = F(30, 0)
    /\ ret.val = F(3, 0)
    /\ RankinePair(args)[1] = F(0, 333)
    /\ Mul(RankinePair(args)[1], ret.val) = F(0, 999)

-----------------------------------------------------------------------------
(* Concurrent calls                                                        *)

\* the values the nested calls of a call bind, in the order of the calls
OwnValues(name, a) ==
    NestedCall(name, a, 0).val
        \o IF name = "calculate_pile_capacity"
           THEN NestedCall(name, a, 1).val
           ELSE <<>>

\* C19: under every interleaving of concurrent calculator calls, a call that
\* has returned holds exactly the outcome the same operation has when run
\* alone with the same arguments, a running call holds in its frame exactly
\* the values its own nested calls bind, and two returned calls with the same
\* operation and arguments hold the same outcome.
C19_CallsIndependent ==
    /\ \A i \in Callers :
           /\ callers[i].pc = "returned" =>
                  callers[i].ret = Alone(callers[i].op, callers[i].args)
           /\ callers[i].pc = "running" =>
                  /\ Len(callers[i].locals) <= FrameSize(callers[i].op)
                  /\ \A k \in 1..Len(callers[i].locals) :
                         callers[i].locals[k] =
                             OwnValues(callers[i].op, callers[i].args)[k]
    /\ \A i, j \in Callers :
           (/\ callers[i].pc = "returned"
            /\ callers[j].pc = "returned"
            /\ callers[i].op = callers[j].op
            /\ callers[i].args = callers[j].args) => callers[i].ret = callers[j].ret

\* two calls of the same operation with different arguments ran interleaved,
\* the second entering while the first held a value of a nested call, and both
\* have returned, with different results
C19_Witness ==
    /\ callers[1].pc = "returned"
    /\ callers[2].pc = "returned"
    /\ callers[1].op = "calculate_pile_capacity"
    /\ callers[2].op = "calculate_pile_capacity"
    /\ callers[1].args.pile_type = "driven"
    /\ callers[2].args.pile_type = "bored"
    /\ callers[1].ret.exc = "none"
    /\ callers[2].ret.exc = "none"
    /\ callers[1].ret.val[1] > callers[2].ret.val[1]

-----------------------------------------------------------------------------
(* Borehole layers                                                         *)

\* how many times the layer x occurs in the list
Occurrences(list, x) == Cardinality({k \in 1..Len(list) : list[k] = x})

\* C20: after any sequence of add_layer calls the layers list holds every
\* layer as many times as it was added, no other layer, and is sorted by
\* non-decreasing depth_top.
C20_LayersKeptSorted ==
    /\ Len(layers) = Len(added)
    /\ \A x \in SoilLayers : Occurrences(layers, x) = Occurrences(added, x)
    /\ \A k \in 1..(Len(layers) - 1) : layers[k].depth_top <= layers[k + 1].depth_top

\* three layers were added deepest first, two of them with the same top
C20_Witness ==
    /\ Len(added) = 3
    /\ added[1].depth_top > added[2].depth_top
    /\ added[2].depth_top = added[3].depth_top
    /\ added[2] # added[3]
    /\ layers = <<added[2], added[3], added[1]>>

\* the layer x contains the depth d: top inclusive, bottom exclusive
Contains(x, d) == x.depth_top <= d /\ d < x.depth_bottom

\* the layers of the list that contain the depth d
LayersAt(list, d) == {list[k] : k \in {j \in 1..Len(list) : Contains(list[j], d)}}

\* the outcome of a get_layer_at_depth call is right for the list
LayerAtDepthRight ==
    (pc = "done" /\ op = "get_layer_at_depth") =>
        /\ ret.exc = "none"
        /\ ret.val = None <=> LayersAt(layers, args.depth) = {}
        /\ ret.val # None =>
               /\ ret.val[1] \in LayersAt(layers, args.depth)
               /\ \A y \in LayersAt(layers, args.depth) :
                      ret.val[1].depth_top <= y.depth_top

\* C21: get_layer_at_depth(d) returns a layer with depth_top <= d <
\* depth_bottom, one with the smallest depth_top when several contain d, and
\* None exactly when no layer contains d; the call does not change the list.
C21_LayerAtDepth ==
    /\ []LayerAtDepthRight
    /\ [][(pc' = "done" /\ op' = "get_layer_at_depth") => layers' = layers]_vars

\* the depth asked for is the bottom of one layer and the top of the next, a
\* third layer with a greater top contains it too, and the lower of the two
\* adjacent layers is returned
C21_Witness ==
    /\ pc = "done"
    /\ op = "get_layer_at_depth"
    /\ args.depth = F(2, 0)
    /\ Len(layers) = 3
    /\ layers[1].depth_bottom = F(2, 0)
    /\ layers[1].depth_top = 0
    /\ layers[2].depth_top = F(2, 0)
    /\ layers[3].depth_top = F(2, 0)
    /\ Cardinality(LayersAt(layers, args.depth)) = 2
    /\ ret.val = Some(layers[2])

-----------------------------------------------------------------------------
(* GeotechnicalProject                                                     *)

\* the list after is the list before with the object x added at the end
Appended(before, after, x) ==
    /\ Len(after) = Len(before) + 1
    /\ SubSeq(after, 1, Len(before)) = before
    /\ after[Len(after)] = x

\* a step that is a call of add_soil_investigation
SoilInvestigationAdded ==
    (pc' = "done" /\ op' = "add_soil_investigation") =>
        /\ Appended(projects[args'.self].soil_investigations,
                    projects'[args'.self].soil_investigations,
                    args'.investigation)
        /\ projects'[args'.self].foundation_designs =
               projects[args'.self].foundation_designs
        /\ investigations'[args'.investigation].project_id = args'.self

\* a step that is a call of add_foundation_design
FoundationDesignAdded ==
    (pc' = "done" /\ op' = "add_foundation_design") =>
        /\ Appended(projects[args'.self].foundation_designs,
                    projects'[args'.self].foundation_designs,
                    args'.design)
        /\ projects'[args'.self].soil_investigations =
               projects[args'.self].soil_investigations
        /\ designs'[args'.design].project_id = args'.self

\* C22: add_soil_investigation and add_foundation_design each append the
\* given object to the end of the project's own list, which grows by one with
\* its earlier entries kept, leave the project's other list as it was, and
\* set the object's project_id to the project's id whatever it was before.
C22_AddAppendsAndOwns ==
    [][SoilInvestigationAdded /\ FoundationDesignAdded]_vars

\* an investigation that belonged to the other project has just been added
\* behind an earlier entry, and carries the id of the project it was added to
C22_Witness ==
    /\ pc = "done"
    /\ op = "add_soil_investigation"
    /\ Len(projects[args.self].soil_investigations) = 2
    /\ projects[args.self].soil_investigations[1] # args.investigation
    /\ projects[args.self].foundation_designs # <<>>
    /\ \E q \in ProjectIds \ {args.self} :
           \E k \in 1..Len(projects[q].soil_investigations) :
               projects[q].soil_investigations[k] = args.investigation
    /\ investigations[args.investigation].project_id = args.self

\* the rank of an investigation by date: no date is below every date
DateRank(inv) ==
    IF inv.investigation_date = None
    THEN DATETIME_MIN - 1
    ELSE inv.investigation_date[1]

\* the positions of the list whose investigation has the latest date of all
LatestAt(list) ==
    {k \in 1..Len(list) :
        \A j \in 1..Len(list) :
            DateRank(investigations[list[j]]) <= DateRank(investigations[list[k]])}

\* C23: get_active_soil_investigation returns None for a project without
\* soil investigations and otherwise the investigation with the latest
\* investigation_date, one without a date ranking below every dated one, the
\* first added among equally latest ones.
C23_ActiveIsLatest ==
    (pc = "done" /\ op = "get_active_soil_investigation") =>
        /\ ret.exc = "none"
        /\ projects[args.self].soil_investigations = <<>> => ret.val = None
        /\ projects[args.self].soil_investigations # <<>> =>
               \E k \in LatestAt(projects[args.self].soil_investigations) :
                   /\ \A j \in LatestAt(projects[args.self].soil_investigations) : k <= j
                   /\ ret.val = Some(projects[args.self].soil_investigations[k])

\* C30: after any sequence of add_soil_investigation calls on any number of
\* projects, the same investigation possibly added to several, every
\* investigation in a project's soil_investigations list has project_id equal
\* to that project's id.
C30_ListedInvestigationsOwned ==
    \A p \in ProjectIds :
        \A k \in 1..Len(projects[p].soil_investigations) :
            investigations[projects[p].soil_investigations[k]].project_id = p

-----------------------------------------------------------------------------
(* Average soil properties                                                 *)

\* the layer overlaps or touches the depth range; no range admits every layer
WithinRange(layer, depth_range) ==
    depth_range # None =>
        (layer.depth_top <= depth_range[2] /\ depth_range[1] <= layer.depth_bottom)

\* the places <<borehole, layer>> of the layers that have a value of the
\* property and lie within the depth range
Valued(boreholes, depth_range, key) ==
    {place \in UNION {{<<b, k>> : k \in 1..Len(boreholes[b])} : b \in 1..Len(boreholes)} :
        /\ boreholes[place[1]][place[2]][key] # None
        /\ WithinRange(boreholes[place[1]][place[2]], depth_range)}

\* the sum of the property over a set of places
RECURSIVE Total(_, _, _)
Total(boreholes, key, places) ==
    IF places = {}
    THEN 0
    ELSE LET place == CHOOSE x \in places : TRUE
         IN  boreholes[place[1]][place[2]][key][1]
                 + Total(boreholes, key, places \ {place})

\* C24: get_average_properties returns, for each of unit_weight, cohesion and
\* friction_angle, the unweighted mean of the values that are not None over
\* the layers of all boreholes that overlap or touch the depth range (all
\* layers when no range is given), and has no key for a property without a
\* value.
C24_AverageProperties ==
    (pc = "done" /\ op = "get_average_properties") =>
        /\ ret.exc = "none"
        /\ DOMAIN ret.val =
               {key \in AverageKeys :
                    Valued(args.boreholes, args.depth_range, key) # {}}
        /\ \A key \in DOMAIN ret.val :
               ret.val[key] =
                   Div(Total(args.boreholes, key,
                             Valued(args.boreholes, args.depth_range, key)),
                       F(Cardinality(Valued(args.boreholes, args.depth_range, key)), 0))

\* two boreholes and a range that the top layer misses and the clay touches:
\* cohesion 0 counts twice, no friction angle is left
C24_Witness ==
    /\ pc = "done"
    /\ op = "get_average_properties"
    /\ args.depth_range = <<F(5, 0), F(6, 0)>>
    /\ Len(args.boreholes) = 2
    /\ args.boreholes[1] = <<TopSand, SoftClay>>
    /\ DOMAIN ret.val = {"unit_weight", "cohesion"}
    /\ ret.val["unit_weight"] = F(19, 0)
    /\ ret.val["cohesion"] = F(3, 333)

-----------------------------------------------------------------------------
(* The verdict                                                             *)

\* the calculators that return a tuple of numbers
TupleOps ==
    {"calculate_bearing_capacity_factors", "calculate_pile_capacity",
     "calculate_total_active_force"}

\* the unrounded safety factor of a composition: allowable / demand, and
\* infinite without a positive demand
UnroundedSafetyFactor == IF Demand > 0 THEN Div(Allowable, Demand) ELSE INF

\* C25: a calculator returns numbers only, never a verdict; the Controller
\* labels the design SAFE exactly when the unrounded safety factor
\* allowable/demand is >= 1.0, the infinite one for zero demand included, and
\* UNSAFE otherwise, in the shallow, the single-pile and the pile-group path.
C25_VerdictByCaller ==
    /\ (pc = "done" /\ op \in CalculatorOps /\ ret.exc = "none") =>
           IF op \in TupleOps
           THEN \A k \in 1..Len(ret.val) : ret.val[k] \in Int
           ELSE ret.val \in Int
    /\ (pc = "done" /\ op \in SafetyFactorOps /\ ret.exc = "none") =>
           /\ ret.val.safety_factor = UnroundedSafetyFactor
           /\ ret.val.shown.status \in {"SAFE", "UNSAFE"}
           /\ ret.val.shown.status = "SAFE" <=> UnroundedSafetyFactor >= F(1, 0)

\* a safety factor just below 1 that is shown as 1.0 and still labelled UNSAFE
C25_Witness ==
    /\ pc = "done"
    /\ op \in SafetyFactorOps
    /\ ret.exc = "none"
    /\ Demand > 0
    /\ ret.val.safety_factor < F(1, 0)
    /\ ret.val.shown.safety_factor >= F(0, 900)
    /\ ret.val.shown.status = "UNSAFE"

-----------------------------------------------------------------------------
(* End bearing                                                             *)

\* C26: calculate_pile_end_bearing returns Qb = (9*cohesion + unit_weight *
\* pile_length * Nq) * pi * (pile_diameter/2)^2 with the fixed coefficient 9,
\* Nq being the value calculate_bearing_capacity_factors returns for the same
\* friction angle; where the one raises OverflowError so does the other.
C26_EndBearingSharesNq ==
    (pc = "done" /\ op = "calculate_pile_end_bearing") =>
        LET Shared(f) ==
                /\ f.exc = "OverflowError" <=> ret.exc = "OverflowError"
                /\ (f.exc = "none" /\ ret.exc = "none") =>
                       ret.val = Mul(Add(Mul(args.cohesion, F(9, 0)),
                                         Mul(Mul(args.unit_weight, args.pile_length),
                                             f.val[2])),
                                     Mul(PI, Sq(Div(args.pile_diameter, F(2, 0)))))
        IN  Shared(calculate_bearing_capacity_factors(args.friction_angle))

C26_Witness ==
    /\ Returned("calculate_pile_end_bearing")
    /\ InputValid(args)
    /\ args.friction_angle = F(30, 0)
    /\ args.cohesion > 0
    /\ args.unit_weight > 0
    /\ calculate_bearing_capacity_factors(args.friction_angle).val[2] > F(18, 0)
    /\ ret.val > Mul(Mul(args.cohesion, F(9, 0)),
                     Mul(PI, Sq(Div(args.pile_diameter, F(2, 0)))))

-----------------------------------------------------------------------------
(* Pile type                                                               *)

\* the skin friction of a call for a given K and a given delta / phi
SkinFrictionWith(a, K, ratio) ==
    Mul(Mul(Add(a.cohesion,
                Mul(Mul(K, Div(Mul(a.unit_weight, a.pile_length), F(2, 0))),
                    MathTan(MathRadians(Mul(ratio, a.friction_angle))))),
            Mul(PI, a.pile_diameter)),
        a.pile_length)

\* C27: calculate_pile_skin_friction uses K = 0.8 and delta = 0.75*phi only
\* for the pile_type "driven"; every other pile_type, "bored", a misspelling
\* or another letter case, is computed with K = 0.7 and delta = 0.6*phi as for
\* "bored", and no error is raised.
C27_PileTypeFallthrough ==
    (pc = "done" /\ op = "calculate_pile_skin_friction") =>
        /\ ret.exc = "none"
        /\ args.pile_type = "driven" =>
               ret.val = SkinFrictionWith(args, F(0, 800), F(0, 750))
        /\ args.pile_type # "driven" =>
               /\ ret.val = SkinFrictionWith(args, F(0, 700), F(0, 600))
               /\ ret = calculate_pile_skin_friction(
                            args.pile_diameter, args.pile_length, args.unit_weight,
                            args.friction_angle, args.cohesion, "bored")

\* a capitalised "Driven" got the bored result, which is below the driven one
C27_Witness ==
    /\ Returned("calculate_pile_skin_friction")
    /\ InputValid(args)
    /\ args.pile_type = "Driven"
    /\ ret.val = SkinFrictionWith(args, F(0, 700), F(0, 600))
    /\ ret.val < SkinFrictionWith(args, F(0, 800), F(0, 750))

-----------------------------------------------------------------------------
(* Location of the resultant                                               *)

\* a wall call of C28 that returned a force which neither vanished nor
\* saturated
WallForceReturned ==
    /\ Returned("calculate_total_active_force")
    /\ WallValid(args)
    /\ args.surcharge >= 0
    /\ ret.val[1] > 0
    /\ ret.val[1] < MAXV

\* the rounding of the two moments and of their quotient by the force Fa
LocationRounding(Fa) == SCALE \div Fa + 1

\* C28 as stated: for positive height, positive unit weight, surcharge >= 0
\* and friction angle in [0, 90) the location returned by
\* calculate_total_active_force satisfies H/3 <= location < H/2.
C28_LocationBetweenThirdAndHalf ==
    WallForceReturned =>
        /\ Div(args.wall_height, F(3, 0)) <= ret.val[2]
        /\ ret.val[2] < Div(args.wall_height, F(2, 0))

\* C28 amended: for such a wall, whose force neither overflows nor
\* underflows, the location lies between H/3 and H/2 from the base to within
\* the rounding of the moments and of the quotient, and within the wall
\* height.
C28_LocationWithinWall ==
    WallForceReturned =>
        /\ Div(args.wall_height, F(3, 0)) - LocationRounding(ret.val[1])
               <= ret.val[2]
        /\ ret.val[2] <= Div(args.wall_height, F(2, 0))
                             + LocationRounding(ret.val[1])
        /\ 0 < ret.val[2]
        /\ ret.val[2] < args.wall_height

\* a wall with a surcharge whose resultant lies strictly between H/3 and H/2
C28_Witness ==
    /\ WallForceReturned
    /\ args.surcharge > 0
    /\ ActiveSoilForce(args) > 0
    /\ Div(args.wall_height, F(3, 0)) < ret.val[2]
    /\ ret.val[2] < Div(args.wall_height, F(2, 0))

\* a wall without surcharge whose resultant is rounded below H/3
C28_WitnessBelowThird ==
    /\ WallForceReturned
    /\ args.surcharge = 0
    /\ ret.val[2] < Div(args.wall_height, F(3, 0))

-----------------------------------------------------------------------------
(* Utilization of a pile group                                             *)

\* the utilization a pile-group call reports: (total_load / num_piles) /
\* Qa_single as a percentage with one decimal
ReportedUtilization ==
    Round(Mul(Div(Div(args.total_load, F(args.num_piles, 0)), ret.val.Qa_single),
              F(100, 0)), 1)

\* C29: whenever a pile group with a positive total load has status SAFE, its
\* group safety factor Qa_group / total_load being at least 1.0, the reported
\* average pile utilization (total_load / num_piles) / Qa_single is at most
\* 100 %.
C29_SafeGroupUtilization ==
    (/\ Returned("_calculate_pile_group")
     /\ args.total_load > 0
     /\ ret.val.shown.status = "SAFE") =>
        /\ Div(ret.val.Qa_group, args.total_load) >= F(1, 0)
        /\ ret.val.shown.utilization = ReportedUtilization
        /\ ret.val.shown.utilization <= F(100, 0)

\* a safe group of closely spaced piles that is loaded to more than half
C29_Witness ==
    /\ Returned("_calculate_pile_group")
    /\ args.total_load > 0
    /\ args.num_piles > 1
    /\ ret.val.shown.status = "SAFE"
    /\ ret.val.efficiency < F(1, 0)
    /\ ret.val.shown.utilization > F(50, 0)
    /\ ret.val.shown.utilization <= F(100, 0)

====
